---------------------------- MODULE Spec2Model ----------------------------
(***************************************************************************)
(* A model of the InfiniteContext core:                                    *)
(*   - TransactionManager.executeTransaction  (utils/TransactionManager)   *)
(*   - VectorStore addChunk / search          (core/VectorStore)           *)
(*   - Bucket addChunk / addChunks / search   (core/Bucket)                *)
(*   - MemoryManager.storeChunk               (core/MemoryManager)         *)
(* Each component has its own specification (SpecTx, SpecVS, SpecBucket,   *)
(* SpecMM); the variables of the other components stay at their initial    *)
(* values.                                                                 *)
(***************************************************************************)
EXTENDS Integers, Sequences, FiniteSets, TLC

VARIABLES
    \* ---- TransactionManager.executeTransaction ----
    txOps,        \* the operations argument
    txPc,         \* position inside executeTransaction
    txI,          \* index of the for-of loop / of the rollback loop
    txResults,    \* const results: T[]
    txExecuted,   \* const executedOperations (as indices into txOps)
    txCaught,     \* the value bound by catch (error)
    txInflight,   \* the execute / rollback promise being awaited
    txCalls,      \* every execute / rollback invoked so far, in order
    txEffects,    \* external state: steps whose execute effect is present
    txPartial,    \* external state: steps whose failed execute left a partial effect
    txReturn,     \* what executeTransaction returned (or threw)
    \* ---- a VectorStore used on its own ----
    vsMetric,     \* private metric
    vsChunks,     \* private chunks: Chunk[]
    vsOut,        \* the last call on the store, its arguments and its outcome
    \* ---- buckets and the chunk objects their callers hand in ----
    bkHeap,       \* the Chunk objects: a stored chunk is a reference to one
    bkBuckets,    \* the Bucket objects, by id
    bkRoots,      \* MemoryManager.rootBuckets (ids, in insertion order)
    bkOut,        \* the last Bucket.search call and its outcome
    \* ---- MemoryManager: providers and one storeChunk call ----
    mmProviders,  \* storageProviders (insertion order): the provider objects
    mmLocations,  \* chunkLocations
    mmData,       \* the locations at which some provider holds data
    mmStores,     \* storeChunk calls made so far
    mmPc,         \* position inside storeChunk
    mmCall,       \* the arguments of the call
    mmOrder,      \* const providers, sorted
    mmIdx,        \* position of the for-of loop in mmOrder
    mmLastError,  \* let lastError
    mmLog,        \* the provider calls of the call, in order
    mmResult,     \* what storeChunk returned or threw
    \* ---- MemoryMonitor ----
    monConfigured,      \* the config argument of the constructor
    monConfig,          \* private config
    monBuckets,         \* private buckets: Bucket[]
    monProviders,       \* private providers: StorageProvider[]
    monAlerts,          \* private alerts: MemoryAlert[]
    monBucketHistory,   \* private bucketSizeHistory
    monProviderHistory, \* private providerUsageHistory
    monGenerated,       \* alerts generated so far
    monTicks,           \* monitoring ticks run so far
    monOut,             \* the last call on the monitor and its outcome
    \* ---- InfiniteContext.storeContent ----
    icCall,             \* the last storeContent call and its outcome
    \* ---- MemoryMonitor.startMonitoring / stopMonitoring ----
    mtMonitoring,       \* private isMonitoring
    mtInterval,         \* private monitoringInterval (0: undefined)
    mtTimers,           \* the intervals set and not cleared
    mtChecks,           \* the checkMemoryUsage calls that are suspended
    mtOut,              \* what the last stopMonitoring left behind
    \* ---- a LocalStorageProvider ----
    lpCurrent,          \* private currentSizeBytes
    lpDisk,             \* the bytes of the files under basePath
    lpAccepted,         \* the data bytes that store calls have written
    lpCalls,            \* the store and getQuota calls that are suspended
    lpStarted,          \* calls made so far
    lpOut               \* the last call that settled and its outcome

txVars == <<txOps, txPc, txI, txResults, txExecuted, txCaught, txInflight,
            txCalls, txEffects, txPartial, txReturn>>

vsVars == <<vsMetric, vsChunks, vsOut>>

bkVars == <<bkHeap, bkBuckets, bkRoots, bkOut>>

mmVars == <<mmProviders, mmLocations, mmData, mmStores, mmPc, mmCall, mmOrder,
            mmIdx, mmLastError, mmLog, mmResult>>

monVars == <<monConfigured, monConfig, monBuckets, monProviders, monAlerts,
             monBucketHistory, monProviderHistory, monGenerated, monTicks, monOut>>

icVars == <<icCall>>

mtVars == <<mtMonitoring, mtInterval, mtTimers, mtChecks, mtOut>>

lpVars == <<lpCurrent, lpDisk, lpAccepted, lpCalls, lpStarted, lpOut>>

vars == <<txVars, vsVars, bkVars, mmVars, monVars, icVars, mtVars, lpVars>>

(***************************************************************************)
(* Bounds                                                                  *)
(***************************************************************************)
MaxOps == 3

\* The dimension the stores are constructed with, the longest store and
\* the largest k of a search.
Dim == 2

MaxStore == 3

MaxK == 2

\* Buckets plus stored chunk references, over all buckets.
MaxObjects == 5

\* Providers registered plus storeChunk calls made, in one behaviour.
MaxRequests == 4

(***************************************************************************)
(* TransactionManager                                                      *)
(***************************************************************************)

\* How an execute or rollback promise settles: it resolves ("ok"), rejects
\* with an Error object ("err"), or rejects with null / undefined ("nil"),
\* which the Promise API allows and `catch (error)` receives untyped.
Outcomes == {"ok", "err", "nil"}

Values == {"a", "b"}

\* A TransactionOperation as the transaction sees it: how execute settles,
\* the value it resolves to, whether a rejected execute had already applied
\* part of its effect, and how rollback settles.
OkOps == [exec : {"ok"}, value : Values, partial : {FALSE}, rb : Outcomes]

FailOps == [exec : {"err", "nil"}, value : {"a"}, partial : BOOLEAN, rb : {"ok"}]

TransactionOperation == OkOps \cup FailOps

OperationLists == UNION {[1..n -> TransactionOperation] : n \in 0..MaxOps}

NoError == [kind |-> "none", by |-> "none", step |-> 0]

NoCall == [op |-> "none", step |-> 0]

TransactionResult(status, results, error) ==
    [status |-> status, results |-> results, error |-> error]

Pending == TransactionResult("pending", <<>>, NoError)

\* `(error as Error).message`: reading a property of null / undefined
\* throws a TypeError, reading it of an Error object does not.
MessageThrows(error) == error.kind = "nil"

\* The other components do not take part in a transaction.
TxFrame == UNCHANGED <<vsVars, bkVars, mmVars, monVars, icVars, mtVars, lpVars>>

TxInit ==
    /\ txOps = <<>>
    /\ txPc = "idle"
    /\ txI = 0
    /\ txResults = <<>>
    /\ txExecuted = <<>>
    /\ txCaught = NoError
    /\ txInflight = NoCall
    /\ txCalls = <<>>
    /\ txEffects = {}
    /\ txPartial = {}
    /\ txReturn = Pending

\* executeTransaction(operations) is entered: lines 54-58.
TxCall(ops) ==
    /\ txPc = "idle"
    /\ txOps' = ops
    /\ txPc' = "loop"
    /\ txI' = 1
    /\ txResults' = <<>>
    /\ txExecuted' = <<>>
    /\ txCaught' = NoError
    /\ txInflight' = NoCall
    /\ txCalls' = <<>>
    /\ txEffects' = {}
    /\ txPartial' = {}
    /\ txReturn' = Pending
    /\ TxFrame

\* line 61: operation.execute() is called and awaited.
TxExecuteCall ==
    /\ txPc = "loop"
    /\ txI <= Len(txOps)
    /\ txInflight' = [op |-> "execute", step |-> txI]
    /\ txCalls' = Append(txCalls, [op |-> "execute", step |-> txI])
    /\ txPc' = "awaitExecute"
    /\ UNCHANGED <<txOps, txI, txResults, txExecuted, txCaught, txEffects,
                   txPartial, txReturn>>
    /\ TxFrame

\* A variant of TxExecuteResolve that forgets results.push(result).
TxExecuteResolve_NoPush ==
    /\ txPc = "awaitExecute"
    /\ txOps[txI].exec = "ok"
    /\ txEffects' = txEffects \cup {txI}
    /\ txResults' = txResults
    /\ txExecuted' = Append(txExecuted, txI)
    /\ txI' = txI + 1
    /\ txInflight' = NoCall
    /\ txPc' = "loop"
    /\ UNCHANGED <<txOps, txCaught, txCalls, txPartial, txReturn>>
    /\ TxFrame

\* lines 61-63: execute resolved; its result and the operation are recorded.
TxExecuteResolve ==
    /\ txPc = "awaitExecute"
    /\ txOps[txI].exec = "ok"
    /\ txEffects' = txEffects \cup {txI}
    /\ txResults' = Append(txResults, txOps[txI].value)
    /\ txExecuted' = Append(txExecuted, txI)
    /\ txI' = txI + 1
    /\ txInflight' = NoCall
    /\ txPc' = "loop"
    /\ UNCHANGED <<txOps, txCaught, txCalls, txPartial, txReturn>>
    /\ TxFrame

\* A variant of TxExecuteReject that goes on with the next operation.
TxExecuteReject_GoesOn ==
    /\ txPc = "awaitExecute"
    /\ txOps[txI].exec # "ok"
    /\ txPartial' = IF txOps[txI].partial THEN txPartial \cup {txI} ELSE txPartial
    /\ txCaught' = [kind |-> txOps[txI].exec, by |-> "execute", step |-> txI]
    /\ txInflight' = NoCall
    /\ txI' = txI + 1
    /\ txPc' = "loop"
    /\ UNCHANGED <<txOps, txResults, txExecuted, txCalls, txEffects, txReturn>>
    /\ TxFrame

\* line 61 -> line 71: execute rejected; control passes to catch (error).
TxExecuteReject ==
    /\ txPc = "awaitExecute"
    /\ txOps[txI].exec # "ok"
    /\ txPartial' = IF txOps[txI].partial THEN txPartial \cup {txI} ELSE txPartial
    /\ txCaught' = [kind |-> txOps[txI].exec, by |-> "execute", step |-> txI]
    /\ txInflight' = NoCall
    /\ txPc' = "catch"
    /\ UNCHANGED <<txOps, txI, txResults, txExecuted, txCalls, txEffects, txReturn>>
    /\ TxFrame

\* lines 66-70: the loop is exhausted, the transaction is committed.
TxCommit ==
    /\ txPc = "loop"
    /\ txI > Len(txOps)
    /\ txReturn' = TransactionResult("committed", txResults, NoError)
    /\ txPc' = "done"
    /\ UNCHANGED <<txOps, txI, txResults, txExecuted, txCaught, txInflight,
                   txCalls, txEffects, txPartial>>
    /\ TxFrame

\* lines 71-77: the catch block logs error.message (outside the inner try)
\* and starts the rollback loop at the last executed operation.
TxCatch ==
    /\ txPc = "catch"
    /\ IF MessageThrows(txCaught)
       THEN /\ txReturn' = TransactionResult("threw", <<>>,
                              [kind |-> "TypeError", by |-> "catch", step |-> txCaught.step])
            /\ txPc' = "done"
            /\ txI' = txI
       ELSE /\ txReturn' = txReturn
            /\ txPc' = "rollbackLoop"
            /\ txI' = Len(txExecuted)
    /\ UNCHANGED <<txOps, txResults, txExecuted, txCaught, txInflight, txCalls,
                   txEffects, txPartial>>
    /\ TxFrame

\* lines 77-80: the next rollback (in reverse order) is called and awaited.
RollbackStart(i) == i >= 1

TxRollbackCall ==
    /\ txPc = "rollbackLoop"
    /\ RollbackStart(txI)
    /\ txInflight' = [op |-> "rollback", step |-> txExecuted[txI]]
    /\ txCalls' = Append(txCalls, [op |-> "rollback", step |-> txExecuted[txI]])
    /\ txPc' = "awaitRollback"
    /\ UNCHANGED <<txOps, txI, txResults, txExecuted, txCaught, txEffects,
                   txPartial, txReturn>>
    /\ TxFrame

\* line 80: rollback resolved, the step's effect is undone.
TxRollbackResolve ==
    /\ txPc = "awaitRollback"
    /\ txOps[txExecuted[txI]].rb = "ok"
    /\ txEffects' = txEffects \ {txExecuted[txI]}
    /\ txI' = txI - 1
    /\ txInflight' = NoCall
    /\ txPc' = "rollbackLoop"
    /\ UNCHANGED <<txOps, txResults, txExecuted, txCaught, txCalls, txPartial, txReturn>>
    /\ TxFrame

\* lines 81-83 and 91-112: rollback rejected.  The inner catch logs
\* rollbackError.message; if that read throws, the outer catch (line 91)
\* builds finalError and returns it, abandoning the remaining rollbacks.
TxRollbackReject ==
    /\ txPc = "awaitRollback"
    /\ txOps[txExecuted[txI]].rb # "ok"
    /\ txInflight' = NoCall
    /\ IF MessageThrows([kind |-> txOps[txExecuted[txI]].rb])
       THEN /\ txReturn' = TransactionResult("rolled_back", txResults,
                              [kind |-> "StorageError", by |-> "rollback",
                               step |-> txExecuted[txI]])
            /\ txPc' = "done"
            /\ txI' = txI
       ELSE /\ txReturn' = txReturn
            /\ txPc' = "rollbackLoop"
            /\ txI' = txI - 1
    /\ UNCHANGED <<txOps, txResults, txExecuted, txCaught, txCalls, txEffects, txPartial>>
    /\ TxFrame

\* lines 86-90: the rollback loop is exhausted.
TxReturnRolledBack ==
    /\ txPc = "rollbackLoop"
    /\ ~RollbackStart(txI)
    /\ txReturn' = TransactionResult("rolled_back", txResults, txCaught)
    /\ txPc' = "done"
    /\ UNCHANGED <<txOps, txI, txResults, txExecuted, txCaught, txInflight,
                   txCalls, txEffects, txPartial>>
    /\ TxFrame

(***************************************************************************)
(* VectorStore                                                             *)
(***************************************************************************)

\* A Vector.  The entries the model feeds in are integers; the only other
\* vectors the code produces are vector.map(val => val / norm), kept as the
\* integer vector `dir` with unit = TRUE, standing for dir / |dir|.
Vec(dir) == [dir |-> dir, unit |-> FALSE]

VecsOfLen(n, vals) == {Vec(d) : d \in [1..n -> vals]}

Metrics == {"cosine", "euclidean", "dot"}

RECURSIVE DotUpTo(_, _, _)
DotUpTo(a, b, n) == IF n = 0 THEN 0 ELSE DotUpTo(a, b, n - 1) + a[n] * b[n]

\* a.reduce((sum, val, i) => sum + val * b[i], 0)
Dot(a, b) == DotUpTo(a, b, Len(a))

RECURSIVE SqDistUpTo(_, _, _)
SqDistUpTo(a, b, n) ==
    IF n = 0 THEN 0 ELSE SqDistUpTo(a, b, n - 1) + (a[n] - b[n]) * (a[n] - b[n])

\* vector.reduce((sum, val) => sum + val * val, 0), the square of the norm
\* of line 40; for a vector already divided by its norm it is 1.
NormSq(v) == IF v.unit THEN 1 ELSE Dot(v.dir, v.dir)

\* normalizeVector, lines 37-43.
NormalizeVector(metric, v) ==
    IF metric # "cosine" THEN v
    ELSE IF NormSq(v) = 0 THEN v
    ELSE [dir |-> v.dir, unit |-> TRUE]

\* A score is the real number num / sqrt(den2), den2 > 0: the cosine of two
\* integer vectors and the negated Euclidean distance are of that form.
Score(num, den2) == [num |-> num, den2 |-> den2]

\* The factor a vector's entries are divided by, squared.
ScaleSq(v) == IF v.unit THEN Dot(v.dir, v.dir) ELSE 1

\* a.score > b.score, exactly.
ScoreGT(a, b) ==
    IF a.num >= 0 /\ b.num <= 0 THEN a.num > 0 \/ b.num < 0
    ELSE IF a.num <= 0 /\ b.num >= 0 THEN FALSE
    ELSE IF a.num > 0 THEN a.num * a.num * b.den2 > b.num * b.num * a.den2
    ELSE a.num * a.num * b.den2 < b.num * b.num * a.den2

ScoreEQ(a, b) == ~ScoreGT(a, b) /\ ~ScoreGT(b, a)

\* calculateDistance throws when the lengths differ: lines 49-51.
DistanceThrows(a, b) == Len(a.dir) # Len(b.dir)

\* calculateDistance, lines 53-71, for vectors of equal length.  The
\* Euclidean and dot metrics never normalise, so their stored vectors are
\* the integer vectors that were added.
CalculateDistance(metric, a, b) ==
    CASE metric = "cosine" ->
           LET normA == NormalizeVector(metric, a)
               normB == NormalizeVector(metric, b)
           IN  Score(Dot(normA.dir, normB.dir), ScaleSq(normA) * ScaleSq(normB))
      [] metric = "euclidean" ->
           LET sum == SqDistUpTo(a.dir, b.dir, Len(a.dir))
           IN  IF sum = 0 THEN Score(0, 1) ELSE Score(-sum, sum)
      [] metric = "dot" ->
           Score(Dot(a.dir, b.dir), ScaleSq(a) * ScaleSq(b))

\* One step of results.sort((a, b) => b.score - a.score), which is stable:
\* x goes behind every element whose score is not below its own.
InsertByScore(sorted, x) ==
    LET p == Cardinality({i \in 1..Len(sorted) : ~ScoreGT(x.score, sorted[i].score)})
    IN  SubSeq(sorted, 1, p) \o <<x>> \o SubSeq(sorted, p + 1, Len(sorted))

RECURSIVE SortUpTo(_, _)
SortUpTo(results, n) ==
    IF n = 0 THEN <<>> ELSE InsertByScore(SortUpTo(results, n - 1), results[n])

\* A variant of SortByScore that leaves the results in insertion order.
SortByScore_Unsorted(results) == results

\* results.sort((a, b) => b.score - a.score): lines 121 and Bucket.ts 118.
SortByScore(results) == SortUpTo(results, Len(results))

\* results.slice(0, k) for k >= 0.
Slice(results, k) == SubSeq(results, 1, IF k < Len(results) THEN k ELSE Len(results))

Thrown == [threw |-> TRUE, results |-> <<>>]

Returned(results) == [threw |-> FALSE, results |-> results]

\* VectorStore.search, lines 108-125.
VSSearch(metric, chunks, queryVector, k) ==
    IF Len(chunks) = 0 THEN Returned(<<>>)
    ELSE IF \E i \in 1..Len(chunks) : DistanceThrows(queryVector, chunks[i].embedding)
    THEN Thrown
    ELSE LET results == [i \in 1..Len(chunks) |->
                            [chunk |-> chunks[i],
                             score |-> CalculateDistance(metric, queryVector,
                                                         chunks[i].embedding)]]
         IN  Returned(Slice(SortByScore(results), k))

\* What VectorStore.addChunk stores for a chunk: lines 81-84.  There is no
\* check of the embedding's length against this.dimension.
VSStoredEmbedding(metric, embedding) ==
    IF metric = "cosine" THEN NormalizeVector(metric, embedding) ELSE embedding

\* Inputs of the stand-alone store: embeddings of the store's dimension and
\* of a shorter one, queries of both and the empty query.
VSVals == {0, 1}

VSEmbeddings == VecsOfLen(Dim, VSVals) \cup VecsOfLen(Dim - 1, VSVals)

VSQueries == VSEmbeddings \cup {Vec(<<>>)}

NoVSCall == [op |-> "none", embedding |-> Vec(<<>>), k |-> 0, sizeBefore |-> 0,
             threw |-> FALSE, index |-> 0, results |-> <<>>]

VSIdle ==
    /\ vsMetric = "cosine"
    /\ vsChunks = <<>>
    /\ vsOut = NoVSCall

\* new VectorStore(dimension, metric), lines 24-32.
VSInit ==
    /\ vsMetric \in Metrics
    /\ vsChunks = <<>>
    /\ vsOut = NoVSCall

VSFrame == UNCHANGED <<txVars, bkVars, mmVars, monVars, icVars, mtVars, lpVars>>

\* VectorStore.addChunk(chunk), lines 80-89, for a chunk with a fresh id.
VSAddChunkCall(embedding) ==
    /\ vsOut.op # "search"
    /\ Len(vsChunks) < MaxStore
    /\ vsChunks' = Append(vsChunks,
                      [id |-> Len(vsChunks) + 1,
                       embedding |-> VSStoredEmbedding(vsMetric, embedding)])
    /\ vsOut' = [op |-> "addChunk", embedding |-> embedding, k |-> 0,
                 sizeBefore |-> Len(vsChunks), threw |-> FALSE,
                 index |-> Len(vsChunks), results |-> <<>>]
    /\ UNCHANGED vsMetric
    /\ VSFrame

\* VectorStore.search(queryVector, k), lines 108-125.
VSSearchCall(queryVector, k) ==
    LET out == VSSearch(vsMetric, vsChunks, queryVector, k)
    IN  /\ vsOut.op # "search"
        /\ vsOut' = [op |-> "search", embedding |-> queryVector, k |-> k,
                     sizeBefore |-> Len(vsChunks), threw |-> out.threw,
                     index |-> 0, results |-> out.results]
        /\ UNCHANGED <<vsMetric, vsChunks>>
        /\ VSFrame

\* The caller takes the results of the search.
VSSearchReturn ==
    /\ vsOut.op = "search"
    /\ vsOut' = NoVSCall
    /\ UNCHANGED <<vsMetric, vsChunks>>
    /\ VSFrame

(***************************************************************************)
(* Bucket                                                                  *)
(***************************************************************************)
Domains == {"d1", "d2"}

\* new VectorStore(): the store a Bucket creates for itself is a cosine store.
BucketMetric == "cosine"

NoParent == 0

\* new Bucket(config), Bucket.ts lines 26-33.
NewBucket(domain, parentId) ==
    [domain |-> domain, parentId |-> parentId, subBuckets |-> <<>>, chunks |-> <<>>]

\* A chunk argument: a Chunk object created for the call (ref = 0, with the
\* embedding and metadata.domain its caller gave it) or one the caller has
\* passed to a bucket before (ref = its place in bkHeap).
FreshChunks(embeddings, domains) ==
    [ref : {0}, embedding : embeddings, domain : domains]

HeldChunks == {[ref |-> r, embedding |-> bkHeap[r].embedding, domain |-> bkHeap[r].domain] :
                  r \in 1..Len(bkHeap)}

RECURSIVE Allocate(_, _, _)
\* The heap once the fresh chunk objects among inputs[1..n] exist.
Allocate(heap, inputs, n) ==
    IF n = 0 THEN heap
    ELSE LET h == Allocate(heap, inputs, n - 1)
         IN  IF inputs[n].ref = 0
             THEN Append(h, [embedding |-> inputs[n].embedding,
                             domain |-> inputs[n].domain])
             ELSE h

RECURSIVE References(_, _, _)
\* The objects inputs[1..n] refer to.
References(heap, inputs, n) ==
    IF n = 0 THEN <<>>
    ELSE LET refs == References(heap, inputs, n - 1)
             fresh == Cardinality({i \in 1..(n - 1) : inputs[i].ref = 0})
         IN  Append(refs, IF inputs[n].ref = 0 THEN Len(heap) + fresh + 1
                          ELSE inputs[n].ref)

\* chunk.metadata.domain = this.domain: Bucket.ts lines 78 and 91.
SetDomain(heap, ref, domain) == [heap EXCEPT ![ref].domain = domain]

RECURSIVE SetDomains(_, _, _, _)
SetDomains(heap, refs, n, domain) ==
    IF n = 0 THEN heap
    ELSE SetDomain(SetDomains(heap, refs, n - 1, domain), refs[n], domain)

\* VectorStore.addChunk on the chunk object: chunk.embedding is replaced,
\* VectorStore lines 82-84.
StoreEmbedding(heap, ref) ==
    [heap EXCEPT ![ref].embedding = VSStoredEmbedding(BucketMetric, @)]

RECURSIVE StoreEmbeddings(_, _, _)
StoreEmbeddings(heap, refs, n) ==
    IF n = 0 THEN heap
    ELSE StoreEmbedding(StoreEmbeddings(heap, refs, n - 1), refs[n])

RECURSIVE SumOfLengths(_, _)
SumOfLengths(buckets, n) ==
    IF n = 0 THEN 0 ELSE SumOfLengths(buckets, n - 1) + Len(buckets[n].chunks)

Objects == Len(bkBuckets) + SumOfLengths(bkBuckets, Len(bkBuckets))

NoBucketCall == [op |-> "none", bucket |-> 0, query |-> Vec(<<>>), k |-> 0,
                 recursive |-> FALSE, threw |-> FALSE, results |-> <<>>]

BucketInit ==
    /\ bkHeap = <<>>
    /\ bkBuckets = <<>>
    /\ bkRoots = <<>>
    /\ bkOut = NoBucketCall

BucketFrame == UNCHANGED <<txVars, vsVars, mmVars, monVars, icVars, mtVars, lpVars>>

\* MemoryManager.createBucket(config): a bucket with a fresh id joins the
\* root buckets.
CreateBucket(domain) ==
    /\ bkOut.op = "none"
    /\ Objects < MaxObjects
    /\ bkBuckets' = Append(bkBuckets, NewBucket(domain, NoParent))
    /\ bkRoots' = Append(bkRoots, Len(bkBuckets) + 1)
    /\ UNCHANGED <<bkHeap, bkOut>>
    /\ BucketFrame

\* Bucket.addSubBucket(config), lines 135-145.
BucketAddSubBucket(b, domain) ==
    /\ bkOut.op = "none"
    /\ Objects < MaxObjects
    /\ b \in 1..Len(bkBuckets)
    /\ bkBuckets' = Append([bkBuckets EXCEPT ![b].subBuckets =
                                Append(@, Len(bkBuckets) + 1)],
                           NewBucket(domain, b))
    /\ UNCHANGED <<bkHeap, bkRoots, bkOut>>
    /\ BucketFrame

\* Bucket.addChunk(chunk), lines 76-80.
BucketAddChunk(b, chunk) ==
    LET heap == Allocate(bkHeap, <<chunk>>, 1)
        ref == References(bkHeap, <<chunk>>, 1)[1]
    IN  /\ bkOut.op = "none"
        /\ Objects < MaxObjects
        /\ b \in 1..Len(bkBuckets)
        /\ bkHeap' = StoreEmbedding(SetDomain(heap, ref, bkBuckets[b].domain), ref)
        /\ bkBuckets' = [bkBuckets EXCEPT ![b].chunks = Append(@, ref)]
        /\ UNCHANGED <<bkRoots, bkOut>>
        /\ BucketFrame

\* Bucket.addChunks(chunks), lines 88-94: the domains are set in a first
\* loop, then VectorStore.addChunks adds the chunks one by one.
BucketAddChunks(b, chunks) ==
    LET heap == Allocate(bkHeap, chunks, Len(chunks))
        refs == References(bkHeap, chunks, Len(chunks))
    IN  /\ bkOut.op = "none"
        /\ Objects + Len(chunks) <= MaxObjects
        /\ b \in 1..Len(bkBuckets)
        /\ bkHeap' = StoreEmbeddings(
                        SetDomains(heap, refs, Len(refs), bkBuckets[b].domain),
                        refs, Len(refs))
        /\ bkBuckets' = [bkBuckets EXCEPT ![b].chunks = @ \o refs]
        /\ UNCHANGED <<bkRoots, bkOut>>
        /\ BucketFrame

\* this.vectorStore's chunks, as the Chunk objects they refer to.
ChunksOf(b) ==
    [i \in 1..Len(bkBuckets[b].chunks) |->
        [id |-> bkBuckets[b].chunks[i],
         embedding |-> bkHeap[bkBuckets[b].chunks[i]].embedding]]

\* A variant of Limit that forgets to cut the merged list down to k.
Limit_NoCut(results, k) == results

\* results.length > k ? results.slice(0, k) : results, Bucket.ts lines 121-123.
Limit(results, k) == IF Len(results) > k THEN Slice(results, k) ELSE results

RECURSIVE BucketSearch(_, _, _, _)
RECURSIVE SubResults(_, _, _, _)
\* Bucket.search(queryVector, k, recursive), lines 104-127.
BucketSearch(b, queryVector, k, recursive) ==
    LET results == VSSearch(BucketMetric, ChunksOf(b), queryVector, k)
    IN  IF results.threw THEN Thrown
        ELSE IF recursive /\ Len(bkBuckets[b].subBuckets) > 0
        THEN LET subResults == SubResults(bkBuckets[b].subBuckets,
                                          Len(bkBuckets[b].subBuckets), queryVector, k)
             IN  IF subResults.threw THEN Thrown
                 ELSE Returned(Limit(SortByScore(results.results \o subResults.results), k))
        ELSE results

\* The loop of lines 110-112 over the first n sub-buckets.
SubResults(subBuckets, n, queryVector, k) ==
    IF n = 0 THEN Returned(<<>>)
    ELSE LET before == SubResults(subBuckets, n - 1, queryVector, k)
             sub == BucketSearch(subBuckets[n], queryVector, k, TRUE)
         IN  IF before.threw \/ sub.threw THEN Thrown
             ELSE Returned(before.results \o sub.results)

\* A caller's Bucket.search(queryVector, k, recursive).
BucketSearchCall(b, queryVector, k, recursive) ==
    LET out == BucketSearch(b, queryVector, k, recursive)
    IN  /\ bkOut.op = "none"
        /\ b \in 1..Len(bkBuckets)
        /\ bkOut' = [op |-> "search", bucket |-> b, query |-> queryVector, k |-> k,
                     recursive |-> recursive, threw |-> out.threw,
                     results |-> out.results]
        /\ UNCHANGED <<bkHeap, bkBuckets, bkRoots>>
        /\ BucketFrame

\* The caller takes the results of the search.
BucketSearchReturn ==
    /\ bkOut.op = "search"
    /\ bkOut' = NoBucketCall
    /\ UNCHANGED <<bkHeap, bkBuckets, bkRoots>>
    /\ BucketFrame

\* The loop of Bucket.getAllChunks over this bucket's store, lines 186-191:
\* size() searches with the empty query and k = 1, each contributing the
\* first result.  The store does not change between the searches.
LocalChunks(b) ==
    LET size == Len(bkBuckets[b].chunks)
        results == VSSearch(BucketMetric, ChunksOf(b), Vec(<<>>), 1)
    IN  IF size = 0 THEN Returned(<<>>)
        ELSE IF results.threw THEN Thrown
        ELSE IF Len(results.results) > 0
        THEN Returned([i \in 1..size |-> results.results[1].chunk.id])
        ELSE Returned(<<>>)

RECURSIVE BucketGetAllChunks(_, _)
RECURSIVE SubChunks(_, _)
\* Bucket.getAllChunks(recursive), lines 182-201: the chunks are given as
\* the Chunk objects they refer to.
BucketGetAllChunks(b, recursive) ==
    LET chunks == LocalChunks(b)
    IN  IF chunks.threw THEN Thrown
        ELSE IF recursive
        THEN LET sub == SubChunks(bkBuckets[b].subBuckets, Len(bkBuckets[b].subBuckets))
             IN  IF sub.threw THEN Thrown ELSE Returned(chunks.results \o sub.results)
        ELSE chunks

\* The loop of lines 195-197 over the first n sub-buckets.
SubChunks(subBuckets, n) ==
    IF n = 0 THEN Returned(<<>>)
    ELSE LET before == SubChunks(subBuckets, n - 1)
             sub == BucketGetAllChunks(subBuckets[n], TRUE)
         IN  IF before.threw \/ sub.threw THEN Thrown
             ELSE Returned(before.results \o sub.results)

RECURSIVE BucketGetChunkCount(_, _)
RECURSIVE SubCount(_, _)
\* Bucket.getChunkCount(recursive), lines 209-219.
BucketGetChunkCount(b, recursive) ==
    Len(bkBuckets[b].chunks)
        + (IF recursive
           THEN SubCount(bkBuckets[b].subBuckets, Len(bkBuckets[b].subBuckets))
           ELSE 0)

\* The loop of lines 213-215 over the first n sub-buckets.
SubCount(subBuckets, n) ==
    IF n = 0 THEN 0
    ELSE SubCount(subBuckets, n - 1) + BucketGetChunkCount(subBuckets[n], TRUE)

\* A caller's getChunkCount(recursive) followed by getAllChunks(recursive).
BucketGetAllChunksCall(b, recursive) ==
    /\ bkOut.op = "none"
    /\ b \in 1..Len(bkBuckets)
    /\ LET out == BucketGetAllChunks(b, recursive)
       IN  bkOut' = [op |-> "getAllChunks", bucket |-> b, query |-> Vec(<<>>), k |-> 1,
                     recursive |-> recursive, threw |-> out.threw,
                     results |-> out.results,
                     count |-> BucketGetChunkCount(b, recursive)]
    /\ UNCHANGED <<bkHeap, bkBuckets, bkRoots>>
    /\ BucketFrame

\* The caller takes the chunks (or the exception).
BucketGetAllChunksReturn ==
    /\ bkOut.op = "getAllChunks"
    /\ bkOut' = NoBucketCall
    /\ UNCHANGED <<bkHeap, bkBuckets, bkRoots>>
    /\ BucketFrame

\* bucket.getId(): the id the bucket was constructed with, Bucket.ts line
\* 27.  A bucket made without config.id has a fresh one, its place among
\* the Bucket objects.
BucketId(b) == IF "id" \in DOMAIN bkBuckets[b] THEN bkBuckets[b].id ELSE b

\* this.subBuckets.set(id, subBucket): a key the map holds keeps its place
\* and gets the new bucket, a new key goes to the end.
SetSubBucket(subBuckets, id, subBucket) ==
    IF \E i \in 1..Len(subBuckets) : BucketId(subBuckets[i]) = id
    THEN [i \in 1..Len(subBuckets) |->
             IF BucketId(subBuckets[i]) = id THEN subBucket ELSE subBuckets[i]]
    ELSE Append(subBuckets, subBucket)

\* A variant of NewSubBucket that leaves parentId out.
NewSubBucket_NoParent(b, id, domain) ==
    [id |-> IF id = 0 THEN Len(bkBuckets) + 1 ELSE id] @@ NewBucket(domain, NoParent)

\* The Bucket that addSubBucket constructs, lines 136-141: config.id (a
\* fresh id for an empty one, the 0 here) and parentId = this.id.
NewSubBucket(b, id, domain) ==
    [id |-> IF id = 0 THEN Len(bkBuckets) + 1 ELSE id] @@ NewBucket(domain, BucketId(b))

\* Bucket.addSubBucket(config) with the id of the config, lines 135-145.
BucketAddSubBucketWithId(b, id, domain) ==
    LET subBucket == Len(bkBuckets) + 1
        made == NewSubBucket(b, id, domain)
    IN  /\ bkOut.op = "none"
        /\ Objects < MaxObjects
        /\ b \in 1..Len(bkBuckets)
        /\ bkBuckets' = Append([bkBuckets EXCEPT ![b].subBuckets =
                                    SetSubBucket(@, made.id, subBucket)],
                               made)
        /\ UNCHANGED <<bkHeap, bkRoots, bkOut>>
        /\ BucketFrame

\* Bucket.removeSubBucket(id), lines 163-165.
BucketRemoveSubBucket(b, id) ==
    LET Stays(subBucket) == BucketId(subBucket) # id
    IN  /\ bkOut.op = "none"
        /\ b \in 1..Len(bkBuckets)
        /\ bkBuckets' = [bkBuckets EXCEPT ![b].subBuckets = SelectSeq(@, Stays)]
        /\ UNCHANGED <<bkHeap, bkRoots, bkOut>>
        /\ BucketFrame

BucketIds == 1..MaxObjects

\* Callers that hand in chunks of every domain (one embedding).
OneEmbedding == {Vec([i \in 1..Dim |-> 1])}

DomainChunks == FreshChunks(OneEmbedding, Domains) \cup HeldChunks

BucketNext ==
    \/ \E d \in Domains : CreateBucket(d)
    \/ \E b \in BucketIds, d \in Domains : BucketAddSubBucket(b, d)
    \/ \E b \in BucketIds, c \in DomainChunks : BucketAddChunk(b, c)
    \/ \E b \in BucketIds, c1, c2 \in DomainChunks : BucketAddChunks(b, <<c1, c2>>)

\* Callers that hand in chunks of several embeddings (one domain) and search.
SearchDomain == {"d1"}

BucketEmbeddings == {Vec([i \in 1..Dim |-> IF i = 1 THEN 1 ELSE 0]),
                     Vec([i \in 1..Dim |-> 1]),
                     Vec([i \in 1..(Dim - 1) |-> 1])}

BucketQueries == {Vec([i \in 1..Dim |-> IF i = 1 THEN 1 ELSE 0]),
                  Vec([i \in 1..Dim |-> IF i = 1 THEN 0 ELSE 1])}

SearchChunks == FreshChunks(BucketEmbeddings, SearchDomain) \cup HeldChunks

SearchNext ==
    \/ \E d \in SearchDomain : CreateBucket(d)
    \/ \E b \in BucketIds, d \in SearchDomain : BucketAddSubBucket(b, d)
    \/ \E b \in BucketIds, c \in SearchChunks : BucketAddChunk(b, c)
    \/ \E b \in BucketIds, q \in BucketQueries, k \in 0..MaxK, r \in BOOLEAN :
          BucketSearchCall(b, q, k, r)
    \/ BucketSearchReturn

\* Callers that build and prune the tree: sub-buckets get a fresh id (0) or
\* the id of the first bucket.
ConfigIds == {0, 1}

ForestNext ==
    \/ \E d \in SearchDomain : CreateBucket(d)
    \/ \E b \in BucketIds, id \in ConfigIds, d \in SearchDomain :
          BucketAddSubBucketWithId(b, id, d)
    \/ \E b \in BucketIds, id \in BucketIds : BucketRemoveSubBucket(b, id)

\* Callers that hand in fresh chunks, with an embedding of the store's
\* dimension or with an empty one, and list the chunks.
ChunkEmbeddings == {Vec([i \in 1..Dim |-> 1]), Vec(<<>>)}

ListedChunks == FreshChunks(ChunkEmbeddings, SearchDomain)

ChunksNext ==
    \/ \E d \in SearchDomain : CreateBucket(d)
    \/ \E b \in BucketIds, d \in SearchDomain : BucketAddSubBucket(b, d)
    \/ \E b \in BucketIds, c \in ListedChunks : BucketAddChunk(b, c)
    \/ \E b \in BucketIds, r \in BOOLEAN : BucketGetAllChunksCall(b, r)
    \/ BucketGetAllChunksReturn

(***************************************************************************)
(* MemoryManager: storage providers and storeChunk                         *)
(***************************************************************************)

\* enum StorageTier; the providers registered here are of the first three.
TierMEMORY == 0

TierLOCAL == 1

TierCLOUD == 2

Tiers == {TierMEMORY, TierLOCAL, TierCLOUD}

ChunkIds == {"c1"}

\* serializedChunk.length, the same for every chunk handed in.
ChunkSize == 2

\* The state of a StorageProvider that storeChunk depends on: isConnected(),
\* whether getQuota() throws, quota.available, and whether store() resolves.
Condition(connected, quotaThrows, available, accepts) ==
    [connected |-> connected, quotaThrows |-> quotaThrows,
     available |-> available, accepts |-> accepts]

\* Each condition fails in at most one respect; quota.available is at the
\* boundary of `quota.available >= serializedChunk.length`.
Disconnected == Condition(FALSE, FALSE, ChunkSize, TRUE)

QuotaFails == Condition(TRUE, TRUE, ChunkSize, TRUE)

Short == Condition(TRUE, FALSE, ChunkSize - 1, TRUE)

Rejecting == Condition(TRUE, FALSE, ChunkSize, FALSE)

Accepting == Condition(TRUE, FALSE, ChunkSize, TRUE)

Conditions == {Disconnected, QuotaFails, Short, Rejecting, Accepting}

NoLocation == [providerId |-> 0, key |-> 0]

\* The arguments of a call, and chunkLocations as the call found it.
NoStoreCall == [chunk |-> "none", preferredTier |-> TierLOCAL, before |-> <<>>]

NoProviderError == [by |-> 0, op |-> "none"]

NoStoreResult == [status |-> "none", location |-> NoLocation, error |-> NoProviderError]

\* A comparator that ignores the preferred tier.
ProviderCompare_TierOnly(a, b, preferredTier) == a.tier - b.tier

\* The comparator of lines 241-250.
ProviderCompare(a, b, preferredTier) ==
    IF a.tier = preferredTier /\ b.tier # preferredTier THEN 0 - 1
    ELSE IF a.tier # preferredTier /\ b.tier = preferredTier THEN 1
    ELSE a.tier - b.tier

\* One step of the (stable) sort: x goes behind every provider that the
\* comparator does not place after it.
InsertProvider(sorted, x, preferredTier) ==
    LET p == Cardinality({i \in 1..Len(sorted) :
                             ProviderCompare(sorted[i], x, preferredTier) <= 0})
    IN  SubSeq(sorted, 1, p) \o <<x>> \o SubSeq(sorted, p + 1, Len(sorted))

RECURSIVE SortProvidersUpTo(_, _, _)
SortProvidersUpTo(providers, n, preferredTier) ==
    IF n = 0 THEN <<>>
    ELSE InsertProvider(SortProvidersUpTo(providers, n - 1, preferredTier),
                        providers[n], preferredTier)

\* Array.from(this.storageProviders.values()).sort(...), lines 240-250.
SortProviders(providers, preferredTier) ==
    SortProvidersUpTo(providers, Len(providers), preferredTier)

\* new MemoryManager(): no provider, no location.
MMInit ==
    /\ mmProviders = <<>>
    /\ mmLocations = [c \in ChunkIds |-> NoLocation]
    /\ mmData = {}
    /\ mmStores = 0
    /\ mmPc = "idle"
    /\ mmCall = NoStoreCall
    /\ mmOrder = <<>>
    /\ mmIdx = 0
    /\ mmLastError = NoProviderError
    /\ mmLog = <<>>
    /\ mmResult = NoStoreResult

\* new XProvider(id, ...): a provider object of a tier, in a condition.
NewProvider(id, tier, condition) ==
    [id |-> id, tier |-> tier, condition |-> condition]

Requests == Len(mmProviders) + mmStores

MMFrame == UNCHANGED <<txVars, vsVars, bkVars, monVars, icVars, mtVars, lpVars>>

\* this.storageProviders.has(id) / get(id)
IsRegistered(id) == \E i \in 1..Len(mmProviders) : mmProviders[i].id = id

ProviderById(id) ==
    mmProviders[CHOOSE i \in 1..Len(mmProviders) : mmProviders[i].id = id]

\* addStorageProvider(provider), lines 141-150: a registered id leaves the
\* map as it is.
AddStorageProvider(id, tier, condition) ==
    /\ mmPc = "idle"
    /\ Requests < MaxRequests
    /\ IF IsRegistered(id)
       THEN UNCHANGED mmProviders
       ELSE mmProviders' = Append(mmProviders, NewProvider(id, tier, condition))
    /\ UNCHANGED <<mmLocations, mmData, mmStores, mmPc, mmCall, mmOrder, mmIdx,
                   mmLastError, mmLog, mmResult>>
    /\ MMFrame

\* storeChunk(chunk, preferredTier) is entered: lines 235-257.
StoreChunkEnter(chunk, preferredTier) ==
    LET providers == SortProviders(mmProviders, preferredTier)
    IN  /\ mmPc = "idle"
        /\ Requests < MaxRequests
        /\ mmStores' = mmStores + 1
        /\ mmCall' = [chunk |-> chunk, preferredTier |-> preferredTier,
                      before |-> mmLocations]
        /\ mmOrder' = providers
        /\ mmIdx' = 1
        /\ mmLastError' = NoProviderError
        /\ mmLog' = <<>>
        /\ IF Len(providers) = 0
           THEN /\ mmPc' = "done"
                /\ mmResult' = [status |-> "threw", location |-> NoLocation,
                                error |-> [by |-> 0, op |-> "No storage providers available"]]
           ELSE /\ mmPc' = "isConnected"
                /\ mmResult' = NoStoreResult
        /\ UNCHANGED <<mmProviders, mmLocations, mmData>>

StoreChunkCall(chunk, preferredTier) ==
    StoreChunkEnter(chunk, preferredTier) /\ MMFrame

\* lines 258-261: await provider.isConnected() of the next candidate.
StoreChunkIsConnected ==
    /\ mmPc = "isConnected"
    /\ mmIdx <= Len(mmOrder)
    /\ LET provider == mmOrder[mmIdx]
       IN  /\ mmLog' = Append(mmLog, [by |-> provider.id, op |-> "isConnected"])
           /\ IF provider.condition.connected
              THEN mmPc' = "getQuota" /\ UNCHANGED mmIdx
              ELSE mmIdx' = mmIdx + 1 /\ UNCHANGED mmPc
    /\ UNCHANGED <<mmProviders, mmLocations, mmData, mmStores, mmCall, mmOrder,
                   mmLastError, mmResult>>
    /\ MMFrame

\* A variant of StoreChunkGetQuota without the test of quota.available.
StoreChunkGetQuota_NoQuotaTest ==
    /\ mmPc = "getQuota"
    /\ LET provider == mmOrder[mmIdx]
           quota == provider.condition
       IN  /\ mmLog' = Append(mmLog, [by |-> provider.id, op |-> "getQuota"])
           /\ IF quota.quotaThrows
              THEN /\ mmLastError' = [by |-> provider.id, op |-> "getQuota"]
                   /\ mmIdx' = mmIdx + 1
                   /\ mmPc' = "isConnected"
              ELSE /\ mmPc' = "store"
                   /\ UNCHANGED <<mmIdx, mmLastError>>
    /\ UNCHANGED <<mmProviders, mmLocations, mmData, mmStores, mmCall, mmOrder,
                   mmResult>>
    /\ MMFrame

\* lines 263-270 and 279-282: await provider.getQuota() and the quota test.
StoreChunkGetQuota ==
    /\ mmPc = "getQuota"
    /\ LET provider == mmOrder[mmIdx]
           quota == provider.condition
       IN  /\ mmLog' = Append(mmLog, [by |-> provider.id, op |-> "getQuota"])
           /\ IF quota.quotaThrows
              THEN /\ mmLastError' = [by |-> provider.id, op |-> "getQuota"]
                   /\ mmIdx' = mmIdx + 1
                   /\ mmPc' = "isConnected"
              ELSE IF quota.available >= ChunkSize
              THEN /\ mmPc' = "store"
                   /\ UNCHANGED <<mmIdx, mmLastError>>
              ELSE /\ mmIdx' = mmIdx + 1
                   /\ mmPc' = "isConnected"
                   /\ UNCHANGED mmLastError
    /\ UNCHANGED <<mmProviders, mmLocations, mmData, mmStores, mmCall, mmOrder,
                   mmResult>>
    /\ MMFrame

\* A variant of StoreChunkStore that goes on to the next candidate after a
\* successful store.
StoreChunkStore_GoesOn ==
    /\ mmPc = "store"
    /\ LET provider == mmOrder[mmIdx]
           location == [providerId |-> provider.id, key |-> mmStores]
       IN  /\ mmLog' = Append(mmLog, [by |-> provider.id, op |-> "store"])
           /\ IF provider.condition.accepts
              THEN /\ mmData' = mmData \cup {location}
                   /\ mmLocations' = [mmLocations EXCEPT ![mmCall.chunk] = location]
                   /\ mmResult' = [status |-> "stored", location |-> location,
                                   error |-> NoProviderError]
                   /\ mmIdx' = mmIdx + 1
                   /\ mmPc' = "isConnected"
                   /\ UNCHANGED mmLastError
              ELSE /\ mmLastError' = [by |-> provider.id, op |-> "store"]
                   /\ mmIdx' = mmIdx + 1
                   /\ mmPc' = "isConnected"
                   /\ UNCHANGED <<mmLocations, mmData, mmResult>>
    /\ UNCHANGED <<mmProviders, mmStores, mmCall, mmOrder>>
    /\ MMFrame

\* lines 272-277 and 279-282: await provider.store(...); on success the
\* location (a key the provider has not used before) is recorded and returned.
StoreChunkStore ==
    /\ mmPc = "store"
    /\ LET provider == mmOrder[mmIdx]
           location == [providerId |-> provider.id, key |-> mmStores]
       IN  /\ mmLog' = Append(mmLog, [by |-> provider.id, op |-> "store"])
           /\ IF provider.condition.accepts
              THEN /\ mmData' = mmData \cup {location}
                   /\ mmLocations' = [mmLocations EXCEPT ![mmCall.chunk] = location]
                   /\ mmResult' = [status |-> "stored", location |-> location,
                                   error |-> NoProviderError]
                   /\ mmPc' = "done"
                   /\ UNCHANGED <<mmIdx, mmLastError>>
              ELSE /\ mmLastError' = [by |-> provider.id, op |-> "store"]
                   /\ mmIdx' = mmIdx + 1
                   /\ mmPc' = "isConnected"
                   /\ UNCHANGED <<mmLocations, mmData, mmResult>>
    /\ UNCHANGED <<mmProviders, mmStores, mmCall, mmOrder>>
    /\ MMFrame

\* line 285: the candidates are exhausted.
StoreChunkThrow ==
    /\ mmPc = "isConnected"
    /\ mmIdx > Len(mmOrder)
    /\ mmPc' = "done"
    /\ mmResult' = [status |-> "threw", location |-> NoLocation,
                    error |-> IF mmLastError # NoProviderError THEN mmLastError
                              ELSE [by |-> 0, op |-> "Failed to store chunk in any provider"]]
    /\ UNCHANGED <<mmProviders, mmLocations, mmData, mmStores, mmCall, mmOrder,
                   mmIdx, mmLastError, mmLog>>
    /\ MMFrame

\* The caller takes the location or the error.
StoreChunkLeave ==
    /\ mmPc = "done"
    /\ mmPc' = "idle"
    /\ mmCall' = NoStoreCall
    /\ mmOrder' = <<>>
    /\ mmIdx' = 0
    /\ mmLastError' = NoProviderError
    /\ mmLog' = <<>>
    /\ mmResult' = NoStoreResult
    /\ UNCHANGED <<mmProviders, mmLocations, mmData, mmStores>>

StoreChunkReturn == StoreChunkLeave /\ MMFrame

MMNext ==
    \/ \E t \in Tiers, c \in Conditions :
          AddStorageProvider(Len(mmProviders) + 1, t, c)
    \/ \E c \in ChunkIds, t \in Tiers : StoreChunkCall(c, t)
    \/ StoreChunkIsConnected
    \/ StoreChunkGetQuota
    \/ StoreChunkStore
    \/ StoreChunkThrow
    \/ StoreChunkReturn

\* removeStorageProvider(id), lines 168-170: this.storageProviders.delete(id).
\* chunkLocations is not touched.
RemoveStorageProvider(id) ==
    LET IsOther(p) == p.id # id
    IN  /\ mmPc = "idle"
        /\ mmProviders' = SelectSeq(mmProviders, IsOther)
        /\ UNCHANGED <<mmLocations, mmData, mmStores, mmPc, mmCall, mmOrder, mmIdx,
                       mmLastError, mmLog, mmResult>>
        /\ MMFrame

\* provider.delete(location) by a holder of the provider, StorageProvider.ts
\* lines 274-309: a connected provider removes the data at the location.
\* The MemoryManager takes no part in it.
ProviderDelete(location) ==
    /\ mmPc = "idle"
    /\ location \in mmData
    /\ IsRegistered(location.providerId)
    /\ ProviderById(location.providerId).condition.connected
    /\ mmData' = mmData \ {location}
    /\ UNCHANGED <<mmProviders, mmLocations, mmStores, mmPc, mmCall, mmOrder, mmIdx,
                   mmLastError, mmLog, mmResult>>
    /\ MMFrame

RetrieveError(by, message) ==
    [status |-> "threw", location |-> NoLocation, error |-> [by |-> by, op |-> message]]

\* A variant of RetrieveChunkCall that drops a location whose provider is gone.
RetrieveChunkCall_DropsStale(chunkId) ==
    LET location == mmLocations[chunkId]
    IN  /\ mmPc = "idle"
        /\ mmCall' = [chunk |-> chunkId, preferredTier |-> TierLOCAL,
                      before |-> mmLocations]
        /\ IF location = NoLocation
           THEN /\ mmPc' = "retrieved"
                /\ mmResult' = RetrieveError(0, "Chunk location not found")
                /\ UNCHANGED mmLocations
           ELSE IF ~IsRegistered(location.providerId)
           THEN /\ mmPc' = "retrieved"
                /\ mmResult' = RetrieveError(0, "Storage provider not found")
                /\ mmLocations' = [mmLocations EXCEPT ![chunkId] = NoLocation]
           ELSE /\ mmPc' = "retrieve"
                /\ mmResult' = NoStoreResult
                /\ UNCHANGED mmLocations
        /\ UNCHANGED <<mmProviders, mmData, mmStores, mmOrder, mmIdx,
                       mmLastError, mmLog>>
        /\ MMFrame

\* retrieveChunk(chunkId) up to the await of provider.retrieve: lines 294-307.
RetrieveChunkCall(chunkId) ==
    LET location == mmLocations[chunkId]
    IN  /\ mmPc = "idle"
        /\ mmCall' = [chunk |-> chunkId, preferredTier |-> TierLOCAL,
                      before |-> mmLocations]
        /\ IF location = NoLocation
           THEN /\ mmPc' = "retrieved"
                /\ mmResult' = RetrieveError(0, "Chunk location not found")
           ELSE IF ~IsRegistered(location.providerId)
           THEN /\ mmPc' = "retrieved"
                /\ mmResult' = RetrieveError(0, "Storage provider not found")
           ELSE /\ mmPc' = "retrieve"
                /\ mmResult' = NoStoreResult
        /\ UNCHANGED <<mmProviders, mmLocations, mmData, mmStores, mmOrder, mmIdx,
                       mmLastError, mmLog>>
        /\ MMFrame

\* lines 307-315: provider.retrieve(location) settles (it rejects when the
\* provider is not connected or holds no data there), then JSON.parse
\* succeeds or, for data that is not a serialized chunk, fails.
RetrieveChunkSettle(parses) ==
    LET location == mmLocations[mmCall.chunk]
        provider == ProviderById(location.providerId)
    IN  /\ mmPc = "retrieve"
        /\ mmPc' = "retrieved"
        /\ mmLog' = Append(mmLog, [by |-> provider.id, op |-> "retrieve"])
        /\ mmResult' =
              IF ~provider.condition.connected \/ location \notin mmData
              THEN RetrieveError(provider.id, "retrieve")
              ELSE IF ~parses
              THEN RetrieveError(0, "Failed to deserialize chunk")
              ELSE [status |-> "retrieved", location |-> location,
                    error |-> NoProviderError]
        /\ UNCHANGED <<mmProviders, mmLocations, mmData, mmStores, mmCall, mmOrder,
                       mmIdx, mmLastError>>
        /\ MMFrame

\* The caller takes the chunk or the error.
RetrieveChunkReturn ==
    /\ mmPc = "retrieved"
    /\ mmPc' = "idle"
    /\ mmCall' = NoStoreCall
    /\ mmLog' = <<>>
    /\ mmResult' = NoStoreResult
    /\ UNCHANGED <<mmProviders, mmLocations, mmData, mmStores, mmOrder, mmIdx,
                   mmLastError>>
    /\ MMFrame

\* Callers that register, remove and re-register two local providers, store,
\* delete and retrieve.
LifeProviderIds == {1, 2}

LifeConditions == {Accepting, Rejecting, Disconnected}

LifeLocations == {[providerId |-> p, key |-> k] : p \in LifeProviderIds, k \in 1..MaxRequests}

LifeNext ==
    \/ \E id \in LifeProviderIds, c \in LifeConditions :
          AddStorageProvider(id, TierLOCAL, c)
    \/ \E id \in LifeProviderIds : RemoveStorageProvider(id)
    \/ \E c \in ChunkIds : StoreChunkCall(c, TierLOCAL)
    \/ StoreChunkIsConnected
    \/ StoreChunkGetQuota
    \/ StoreChunkStore
    \/ StoreChunkThrow
    \/ StoreChunkReturn
    \/ \E l \in LifeLocations : ProviderDelete(l)
    \/ \E c \in ChunkIds : RetrieveChunkCall(c)
    \/ \E parses \in BOOLEAN : RetrieveChunkSettle(parses)
    \/ RetrieveChunkReturn

(***************************************************************************)
(* MemoryMonitor                                                           *)
(***************************************************************************)

\* The defaults of the constructor, the cap of this.alerts, the cap of a
\* history, the usage above which a provider alert is critical, and the
\* estimate's 5 KB per chunk and 1024 KB per MB.
DefaultBucketSizeThresholdMB == 100

DefaultProviderCapacityThresholdPercent == 80

DefaultDomainGrowthThresholdPercent == 50

AlertCap == 100

HistoryCap == 10

CriticalUsagePercent == 95

AverageChunkKB == 5

KBPerMB == 1024

\* A value given to the constructor; 0 also stands for a field left out.
Configured(sizeMB, capacityPercent, growthPercent, alertCallback) ==
    [bucketSizeThresholdMB |-> sizeMB,
     providerCapacityThresholdPercent |-> capacityPercent,
     domainGrowthThresholdPercent |-> growthPercent,
     alertCallback |-> alertCallback]

\* `value || fallback` for a number: 0 (and undefined) give the fallback.
OrDefault(value, fallback) == IF value = 0 THEN fallback ELSE value

\* this.config as the constructor builds it, lines 162-170.  alertCallback
\* is absent ("none"), returns, or throws.
MonitorConfig(configured) ==
    [bucketSizeThresholdMB |->
        OrDefault(configured.bucketSizeThresholdMB, DefaultBucketSizeThresholdMB),
     providerCapacityThresholdPercent |->
        OrDefault(configured.providerCapacityThresholdPercent,
                  DefaultProviderCapacityThresholdPercent),
     domainGrowthThresholdPercent |->
        OrDefault(configured.domainGrowthThresholdPercent,
                  DefaultDomainGrowthThresholdPercent),
     alertCallback |-> configured.alertCallback]

MonBucketIds == {"b1", "b2"}

MonProviderIds == {"p1", "p2"}

\* A registered Bucket as the monitor sees it: getId(), getDomain() and
\* getChunkCount(true).
MonBucket(id, domain, chunkCount) ==
    [id |-> id, domain |-> domain, chunkCount |-> chunkCount]

\* A registered StorageProvider as the monitor sees it: isConnected(),
\* whether getQuota() throws, and quota.used and quota.total (total > 0).
MonProvider(id, connected, quotaThrows, used, total) ==
    [id |-> id, connected |-> connected, quotaThrows |-> quotaThrows,
     used |-> used, total |-> total]

NoMonitorCall ==
    [op |-> "none", id |-> 0, returned |-> FALSE, status |-> "none",
     alertsBefore |-> <<>>, generatedBefore |-> 0, providerHistoryBefore |-> <<>>,
     bucketHistoryBefore |-> <<>>]

\* The state of a monitor built with one of the given constructor arguments.
MonitorConstructed(configurations) ==
    /\ \E configured \in configurations :
          /\ monConfigured = configured
          /\ monConfig = MonitorConfig(configured)
    /\ monBuckets = <<>>
    /\ monProviders = <<>>
    /\ monAlerts = <<>>
    /\ monBucketHistory = [id \in MonBucketIds |-> <<>>]
    /\ monProviderHistory = [id \in MonProviderIds |-> <<>>]
    /\ monGenerated = 0
    /\ monTicks = 0
    /\ monOut = NoMonitorCall

\* new MemoryMonitor() without arguments.
MonIdle == MonitorConstructed({Configured(0, 0, 0, "none")})

MonFrame == UNCHANGED <<txVars, vsVars, bkVars, mmVars, icVars, mtVars, lpVars>>

\* (chunkCount * 5) / 1024, kept as the number of KB: the estimate in MB
\* times 1024, so that it stays an integer.
EstimatedSizeKB(chunkCount) == chunkCount * AverageChunkKB

\* estimatedSizeMB > thresholdMB, on the KB value.
ExceedsMB(sizeKB, thresholdMB) == sizeKB > thresholdMB * KBPerMB

\* A variant of PushSample that drops the new sample from a full history.
PushSample_KeepsOldest(history, sample) ==
    IF Len(history) >= HistoryCap THEN history ELSE Append(history, sample)

\* history.push(sample); if (history.length > 10) history.shift().
PushSample(history, sample) ==
    LET pushed == Append(history, sample)
    IN  IF Len(pushed) > HistoryCap THEN Tail(pushed) ELSE pushed

\* The monitor's fields while a tick runs, and whether something has thrown.
MonitorFields ==
    [alerts |-> monAlerts, generated |-> monGenerated,
     bucketHistory |-> monBucketHistory, providerHistory |-> monProviderHistory,
     threw |-> FALSE]

\* A variant of GenerateAlert that drops the new alert when the cap is reached.
GenerateAlert_KeepsOldest(m, type, severity, subject) ==
    LET fullAlert == [id |-> m.generated + 1, type |-> type, severity |-> severity,
                      subject |-> subject, acknowledged |-> FALSE]
        pushed == Append(m.alerts, fullAlert)
    IN  [m EXCEPT !.alerts = IF Len(pushed) > AlertCap THEN m.alerts ELSE pushed,
                  !.generated = m.generated + 1,
                  !.threw = (monConfig.alertCallback = "throws")]

\* generateAlert, lines 525-544: the alert is pushed, the oldest one is
\* shifted out beyond 100, then the callback runs and may throw.  Alert ids
\* are distinct; the model numbers them in generation order.
GenerateAlert(m, type, severity, subject) ==
    LET fullAlert == [id |-> m.generated + 1, type |-> type, severity |-> severity,
                      subject |-> subject, acknowledged |-> FALSE]
        pushed == Append(m.alerts, fullAlert)
    IN  [m EXCEPT !.alerts = IF Len(pushed) > AlertCap THEN Tail(pushed) ELSE pushed,
                  !.generated = m.generated + 1,
                  !.threw = (monConfig.alertCallback = "throws")]

\* A variant of BucketSeverity that calls every excess critical.
BucketSeverity_AlwaysCritical(sizeKB, thresholdMB) == "critical"

\* line 402.
BucketSeverity(sizeKB, thresholdMB) ==
    IF ExceedsMB(sizeKB, thresholdMB * 2) THEN "critical" ELSE "warning"

\* The body of the loop of checkBucketSizes, lines 383-413.
CheckBucketSize(m, bucket) ==
    LET sizeKB == EstimatedSizeKB(bucket.chunkCount)
        sampled == [m EXCEPT !.bucketHistory[bucket.id] = PushSample(@, sizeKB)]
    IN  IF ExceedsMB(sizeKB, monConfig.bucketSizeThresholdMB)
        THEN GenerateAlert(sampled, "bucket-size",
                           BucketSeverity(sizeKB, monConfig.bucketSizeThresholdMB),
                           bucket.id)
        ELSE sampled

RECURSIVE CheckBucketSizes(_, _)
\* checkBucketSizes over the first n buckets, lines 381-415; an exception
\* ends the loop.
CheckBucketSizes(m, n) ==
    IF n = 0 THEN m
    ELSE LET done == CheckBucketSizes(m, n - 1)
         IN  IF done.threw THEN done ELSE CheckBucketSize(done, monBuckets[n])

\* usagePercent > percent, for usagePercent = (used / total) * 100.
UsageExceeds(provider, percent) == provider.used * 100 > percent * provider.total

\* line 441.
ProviderSeverity(provider) ==
    IF UsageExceeds(provider, CriticalUsagePercent) THEN "critical" ELSE "warning"

\* The body of the loop of checkProviderCapacities, lines 421-455.
CheckProviderCapacity(m, provider) ==
    IF ~provider.connected THEN m
    ELSE IF provider.quotaThrows THEN [m EXCEPT !.threw = TRUE]
    ELSE LET quota == [used |-> provider.used, total |-> provider.total]
             sampled == [m EXCEPT !.providerHistory[provider.id] = PushSample(@, quota)]
         IN  IF UsageExceeds(provider, monConfig.providerCapacityThresholdPercent)
             THEN GenerateAlert(sampled, "provider-capacity",
                                ProviderSeverity(provider), provider.id)
             ELSE sampled

RECURSIVE CheckProviderCapacities(_, _)
\* checkProviderCapacities over the first n providers, lines 420-457.
CheckProviderCapacities(m, n) ==
    IF n = 0 THEN m
    ELSE LET done == CheckProviderCapacities(m, n - 1)
         IN  IF done.threw THEN done ELSE CheckProviderCapacity(done, monProviders[n])

RECURSIVE DomainsUpTo(_)
\* The keys of domainBuckets, in insertion order: lines 464-471.
DomainsUpTo(n) ==
    IF n = 0 THEN <<>>
    ELSE LET domains == DomainsUpTo(n - 1)
         IN  IF \E i \in 1..Len(domains) : domains[i] = monBuckets[n].domain
             THEN domains
             ELSE Append(domains, monBuckets[n].domain)

RECURSIVE CurrentSizeKB(_, _)
\* currentSize of a domain over the first n buckets, lines 475-482.
CurrentSizeKB(domain, n) ==
    IF n = 0 THEN 0
    ELSE CurrentSizeKB(domain, n - 1)
            + (IF monBuckets[n].domain = domain
               THEN EstimatedSizeKB(monBuckets[n].chunkCount) ELSE 0)

RECURSIVE PreviousSizeKB(_, _, _)
\* previousSize of a domain over the first n buckets, lines 488-495.
PreviousSizeKB(bucketHistory, domain, n) ==
    IF n = 0 THEN 0
    ELSE LET history == bucketHistory[monBuckets[n].id]
         IN  PreviousSizeKB(bucketHistory, domain, n - 1)
                + (IF monBuckets[n].domain = domain /\ Len(history) >= 2
                   THEN history[Len(history) - 1] ELSE 0)

\* growthPercent > percent, lines 485-498: growthPercent stays 0 unless
\* previousSize > 0.
GrowthExceeds(currentSize, previousSize, percent) ==
    IF previousSize > 0
    THEN (currentSize - previousSize) * 100 > percent * previousSize
    ELSE 0 > percent

\* line 505.
GrowthSeverity(currentSize, previousSize, threshold) ==
    IF GrowthExceeds(currentSize, previousSize, threshold * 2) THEN "warning" ELSE "info"

\* The body of the second loop of checkDomainGrowth, lines 474-516.
CheckOneDomainGrowth(m, domain) ==
    LET currentSize == CurrentSizeKB(domain, Len(monBuckets))
        previousSize == PreviousSizeKB(m.bucketHistory, domain, Len(monBuckets))
    IN  IF GrowthExceeds(currentSize, previousSize, monConfig.domainGrowthThresholdPercent)
        THEN GenerateAlert(m, "domain-growth",
                           GrowthSeverity(currentSize, previousSize,
                                          monConfig.domainGrowthThresholdPercent),
                           domain)
        ELSE m

RECURSIVE CheckDomainGrowth(_, _, _)
\* checkDomainGrowth over the first n domains, lines 462-518.
CheckDomainGrowth(m, domains, n) ==
    IF n = 0 THEN m
    ELSE LET done == CheckDomainGrowth(m, domains, n - 1)
         IN  IF done.threw THEN done ELSE CheckOneDomainGrowth(done, domains[n])

\* The try block of checkMemoryUsage, lines 356-364.
RunChecks(m) ==
    LET sizes == CheckBucketSizes(m, Len(monBuckets))
        capacities == IF sizes.threw THEN sizes
                      ELSE CheckProviderCapacities(sizes, Len(monProviders))
        domains == DomainsUpTo(Len(monBuckets))
    IN  IF capacities.threw THEN capacities
        ELSE CheckDomainGrowth(capacities, domains, Len(domains))

\* checkMemoryUsage, lines 355-376: the catch block generates a system
\* alert, and generateAlert calls the callback again.
CheckMemoryUsage(m) ==
    LET checked == RunChecks(m)
    IN  IF checked.threw
        THEN GenerateAlert([checked EXCEPT !.threw = FALSE], "system", "warning", "monitor")
        ELSE checked

\* registerBuckets(buckets), lines 177-186.
RegisterBuckets(buckets) ==
    /\ monBuckets' = buckets
    /\ monOut' = NoMonitorCall
    /\ UNCHANGED <<monConfigured, monConfig, monProviders, monAlerts, monBucketHistory,
                   monProviderHistory, monGenerated, monTicks>>
    /\ MonFrame

\* registerProviders(providers), lines 193-202.
RegisterProviders(providers) ==
    /\ monProviders' = providers
    /\ monOut' = NoMonitorCall
    /\ UNCHANGED <<monConfigured, monConfig, monBuckets, monAlerts, monBucketHistory,
                   monProviderHistory, monGenerated, monTicks>>
    /\ MonFrame

\* Chunks are added to a registered bucket: its getChunkCount(true) grows.
BucketGrows(i, chunkCount) ==
    /\ i \in 1..Len(monBuckets)
    /\ chunkCount > monBuckets[i].chunkCount
    /\ monBuckets' = [monBuckets EXCEPT ![i].chunkCount = chunkCount]
    /\ monOut' = NoMonitorCall
    /\ UNCHANGED <<monConfigured, monConfig, monProviders, monAlerts, monBucketHistory,
                   monProviderHistory, monGenerated, monTicks>>
    /\ MonFrame

\* A registered provider's connection or quota changes.
ProviderChanges(i, connected, quotaThrows, used) ==
    /\ i \in 1..Len(monProviders)
    /\ monProviders' = [monProviders EXCEPT ![i].connected = connected,
                                            ![i].quotaThrows = quotaThrows,
                                            ![i].used = used]
    /\ monProviders' # monProviders
    /\ monOut' = NoMonitorCall
    /\ UNCHANGED <<monConfigured, monConfig, monBuckets, monAlerts, monBucketHistory,
                   monProviderHistory, monGenerated, monTicks>>
    /\ MonFrame

\* One monitoring tick: checkMemoryUsage() as startMonitoring and the
\* interval call it, lines 218-224.  The promise is fulfilled ("completed")
\* or rejected.
MonitorTick ==
    LET m == CheckMemoryUsage(MonitorFields)
    IN  /\ monAlerts' = m.alerts
        /\ monGenerated' = m.generated
        /\ monBucketHistory' = m.bucketHistory
        /\ monProviderHistory' = m.providerHistory
        /\ monTicks' = monTicks + 1
        /\ monOut' = [op |-> "tick", id |-> 0, returned |-> FALSE,
                      status |-> IF m.threw THEN "rejected" ELSE "completed",
                      alertsBefore |-> monAlerts, generatedBefore |-> monGenerated,
                      providerHistoryBefore |-> monProviderHistory,
                      bucketHistoryBefore |-> monBucketHistory]
        /\ UNCHANGED <<monConfigured, monConfig, monBuckets, monProviders>>
        /\ MonFrame

\* this.alerts.find(a => a.id === alertId): the place of the alert, 0 if none.
FindAlert(alerts, alertId) ==
    IF \E i \in 1..Len(alerts) : alerts[i].id = alertId
    THEN CHOOSE i \in 1..Len(alerts) :
            /\ alerts[i].id = alertId
            /\ \A j \in 1..(i - 1) : alerts[j].id # alertId
    ELSE 0

\* A variant of AcknowledgeAlert that reports success without setting the flag.
AcknowledgeAlert_FlagUnset(alertId) ==
    /\ UNCHANGED monAlerts
    /\ monOut' = [op |-> "acknowledge", id |-> alertId,
                  returned |-> FindAlert(monAlerts, alertId) # 0, status |-> "none",
                  alertsBefore |-> monAlerts, generatedBefore |-> monGenerated,
                  providerHistoryBefore |-> <<>>, bucketHistoryBefore |-> <<>>]
    /\ UNCHANGED <<monConfigured, monConfig, monBuckets, monProviders, monBucketHistory,
                   monProviderHistory, monGenerated, monTicks>>
    /\ MonFrame

\* acknowledgeAlert(alertId), lines 259-268.
AcknowledgeAlert(alertId) ==
    LET i == FindAlert(monAlerts, alertId)
    IN  /\ IF i # 0
           THEN monAlerts' = [monAlerts EXCEPT ![i].acknowledged = TRUE]
           ELSE UNCHANGED monAlerts
        /\ monOut' = [op |-> "acknowledge", id |-> alertId, returned |-> i # 0,
                      status |-> "none", alertsBefore |-> monAlerts,
                      generatedBefore |-> monGenerated, providerHistoryBefore |-> <<>>,
                      bucketHistoryBefore |-> <<>>]
        /\ UNCHANGED <<monConfigured, monConfig, monBuckets, monProviders,
                       monBucketHistory, monProviderHistory, monGenerated, monTicks>>
        /\ MonFrame

\* getAlerts(includeAcknowledged), lines 245-251.
GetAlerts(alerts, includeAcknowledged) ==
    LET Open(alert) == ~alert.acknowledged
    IN  IF includeAcknowledged THEN alerts ELSE SelectSeq(alerts, Open)

\* ---- the bucket-size check: one monitor with a threshold of 100 MB ----
MaxTicks == 2

SizeConfigurations ==
    {Configured(DefaultBucketSizeThresholdMB, 0, 0, callback) :
        callback \in {"none", "returns"}}

\* Chunk counts around the two limits: 20,480 chunks are estimated at
\* exactly 100 MB and 40,960 at exactly 200 MB.
SizeChunkCounts == {20001, 20480, 20481, 40001, 40960, 40961}

\* The monitor is given its buckets once, as InfiniteContext does when it
\* creates the monitor.
SizeBucketLists ==
    {<<MonBucket("b1", "d1", 20001)>>,
     <<MonBucket("b1", "d1", 20001), MonBucket("b2", "d2", 20001)>>}

\* The first bucket passes through every count, the second jumps to the last.
SizeGrowth(i) == IF i = 1 THEN SizeChunkCounts ELSE {40961}

SizeNext ==
    \/ monBuckets = <<>> /\ \E buckets \in SizeBucketLists : RegisterBuckets(buckets)
    \/ \E i \in 1..2 : \E chunkCount \in SizeGrowth(i) : BucketGrows(i, chunkCount)
    \/ monTicks < MaxTicks /\ MonitorTick

\* ---- the alert list: a monitor whose every tick generates three alerts ----
MaxEvictions == 3

\* The ids handed to acknowledgeAlert: the first alerts generated, which are
\* not retained before they are generated and after they are evicted.
MaxAcknowledged == 4

\* A bucket above the threshold, a bucket above twice the threshold and a
\* provider above 95 percent: a warning and two critical alerts per tick.
AlertsBuckets == <<MonBucket("b1", "d1", 20481), MonBucket("b2", "d2", 40961)>>

AlertsProviders == <<MonProvider("p1", TRUE, FALSE, 99, 100)>>

\* Monitoring starts once buckets and providers are registered, and runs
\* until MaxEvictions alerts have been generated beyond the cap.
AlertsNext ==
    \/ monBuckets = <<>> /\ RegisterBuckets(AlertsBuckets)
    \/ monProviders = <<>> /\ RegisterProviders(AlertsProviders)
    \/ /\ monBuckets # <<>>
       /\ monProviders # <<>>
       /\ monGenerated < AlertCap + MaxEvictions
       /\ MonitorTick
    \/ \E alertId \in 1..MaxAcknowledged : AcknowledgeAlert(alertId)

\* ---- the capacity check: thresholds left out (0), 80 and 98 ----
CapacityConfigurations ==
    {Configured(0, threshold, 0, callback) :
        threshold \in {0, 80, 98}, callback \in {"none", "throws"}}

CapacityProviderLists ==
    {<<MonProvider("p1", TRUE, FALSE, 50, 100)>>,
     <<MonProvider("p1", TRUE, FALSE, 50, 100), MonProvider("p2", TRUE, FALSE, 99, 100)>>}

\* What becomes of a provider: the first one is used up to 81, 95 or 96
\* percent, disconnects, or fails in getQuota; the second one disconnects.
CapacityChanges(i) ==
    IF i = 1
    THEN {[connected |-> TRUE, quotaThrows |-> FALSE, used |-> used] : used \in {81, 95, 96}}
            \cup {[connected |-> FALSE, quotaThrows |-> FALSE, used |-> 96],
                  [connected |-> TRUE, quotaThrows |-> TRUE, used |-> 96]}
    ELSE {[connected |-> FALSE, quotaThrows |-> FALSE, used |-> 99]}

CapacityNext ==
    \/ monProviders = <<>> /\ \E providers \in CapacityProviderLists : RegisterProviders(providers)
    \/ \E i \in 1..2 : \E change \in CapacityChanges(i) :
          ProviderChanges(i, change.connected, change.quotaThrows, change.used)
    \/ monTicks < MaxTicks /\ MonitorTick

\* ---- the growth check: thresholds left out (0), 0 and 50 ----
GrowthConfigurations ==
    {Configured(0, 0, threshold, callback) :
        threshold \in {0, 50}, callback \in {"none", "returns"}}

\* One bucket, two buckets of one domain, two buckets of two domains.
GrowthBucketLists ==
    {<<MonBucket("b1", "d1", 2)>>,
     <<MonBucket("b1", "d1", 2), MonBucket("b2", "d1", 1)>>,
     <<MonBucket("b1", "d1", 2), MonBucket("b2", "d2", 1)>>}

\* From 2 chunks to 3 is a growth of 50 percent, to 4 of 100 and to 7 of 250.
GrowthChunkCounts(i) == IF i = 1 THEN {3, 4, 7} ELSE {3}

GrowthNext ==
    \/ monBuckets = <<>> /\ \E buckets \in GrowthBucketLists : RegisterBuckets(buckets)
    \/ \E i \in 1..2 : \E chunkCount \in GrowthChunkCounts(i) : BucketGrows(i, chunkCount)
    \/ monTicks < MaxTicks /\ MonitorTick

\* ---- the histories: a monitor that runs more than ten ticks ----
MaxDropped == 2

HistoryBuckets == <<MonBucket("b1", "d1", 10)>>

HistoryProviders == <<MonProvider("p1", TRUE, FALSE, 10, 100)>>

\* The bucket and the provider's usage grow twice at most, at any tick, and
\* stay below every threshold.
HistoryNext ==
    \/ monBuckets = <<>> /\ RegisterBuckets(HistoryBuckets)
    \/ monProviders = <<>> /\ RegisterProviders(HistoryProviders)
    \/ \E chunkCount \in {11, 12} : BucketGrows(1, chunkCount)
    \/ \E used \in {20, 30} :
          /\ ProviderChanges(1, TRUE, FALSE, used)
          /\ used > monProviders[1].used
    \/ /\ monBuckets # <<>>
       /\ monProviders # <<>>
       /\ monTicks < HistoryCap + MaxDropped
       /\ MonitorTick

(***************************************************************************)
(* InfiniteContext.storeContent                                            *)
(***************************************************************************)
TierPLATFORM == 3

TierEXTENDED == 4

\* enum StorageTier, types.ts lines 41-47.
StorageTiers == {TierMEMORY, TierLOCAL, TierCLOUD, TierPLATFORM, TierEXTENDED}

\* The options argument: preferredTier is left out or is a StorageTier.
ContentOptions ==
    {[given |-> FALSE, preferredTier |-> 0]}
        \cup {[given |-> TRUE, preferredTier |-> t] : t \in StorageTiers}

\* options.preferredTier || StorageTier.LOCAL, line 167.
PreferredTier(options) ==
    IF options.given THEN OrDefault(options.preferredTier, TierLOCAL) ELSE TierLOCAL

NoContentCall ==
    [status |-> "none", options |-> [given |-> FALSE, preferredTier |-> 0],
     bucket |-> 0, chunk |-> 0]

ContentIdle == icCall = NoContentCall

\* chunkLocations of a MemoryManager whose chunks are the objects of bkHeap.
ContentInit ==
    /\ mmProviders = <<>>
    /\ mmLocations = [c \in 1..MaxObjects |-> NoLocation]
    /\ mmData = {}
    /\ mmStores = 0
    /\ mmPc = "idle"
    /\ mmCall = NoStoreCall
    /\ mmOrder = <<>>
    /\ mmIdx = 0
    /\ mmLastError = NoProviderError
    /\ mmLog = <<>>
    /\ mmResult = NoStoreResult

\* Array.from(buckets.values()).find(...), lines 170-172: the first root
\* bucket of the domain (0: none).  Every bucket here has the name 'default'.
FindBucket(domain) ==
    LET found == {i \in 1..Len(bkRoots) : bkBuckets[bkRoots[i]].domain = domain}
    IN  IF found = {} THEN 0
        ELSE bkRoots[CHOOSE i \in found : \A j \in found : i <= j]

\* storeContent(content, options), lines 153-197, up to the first await
\* that does not settle at once: the bucket is found or created (lines
\* 170-180), createChunk resolves or rejects (lines 183-188), the chunk is
\* added to the bucket (line 191) and storeChunk is entered (line 194).
StoreContentCall(domain, options, embeds) ==
    LET found == FindBucket(domain)
        bucket == IF found = 0 THEN Len(bkBuckets) + 1 ELSE found
        buckets == IF found = 0 THEN Append(bkBuckets, NewBucket(domain, NoParent))
                   ELSE bkBuckets
        chunk == Len(bkHeap) + 1
        heap == Append(bkHeap, [embedding |-> CHOOSE e \in OneEmbedding : TRUE,
                                domain |-> domain])
    IN  /\ icCall.status # "running"
        /\ mmPc = "idle"
        /\ Requests < MaxRequests
        /\ Objects + 2 <= MaxObjects
        /\ bkRoots' = IF found = 0 THEN Append(bkRoots, bucket) ELSE bkRoots
        /\ IF embeds
           THEN /\ bkHeap' = StoreEmbedding(SetDomain(heap, chunk, buckets[bucket].domain), chunk)
                /\ bkBuckets' = [buckets EXCEPT ![bucket].chunks = Append(@, chunk)]
                /\ StoreChunkEnter(chunk, PreferredTier(options))
                /\ icCall' = [status |-> "running", options |-> options,
                              bucket |-> bucket, chunk |-> chunk]
           ELSE /\ bkBuckets' = buckets
                /\ icCall' = [status |-> "threw", options |-> options,
                              bucket |-> bucket, chunk |-> 0]
                /\ UNCHANGED <<bkHeap, mmVars>>
        /\ UNCHANGED <<bkOut, txVars, vsVars, monVars, mtVars, lpVars>>

\* lines 194-196: storeChunk has settled; storeContent returns chunk.id or
\* rejects with storeChunk's error.
StoreContentReturn ==
    /\ icCall.status = "running"
    /\ StoreChunkLeave
    /\ icCall' = [icCall EXCEPT !.status = IF mmResult.status = "stored"
                                          THEN "returned" ELSE "threw"]
    /\ UNCHANGED <<bkVars, txVars, vsVars, monVars, mtVars, lpVars>>

ContentTiers == {TierMEMORY, TierLOCAL}

ContentConditions == {Disconnected, Rejecting, Accepting}

ContentNext ==
    \/ \E t \in ContentTiers, c \in ContentConditions :
          AddStorageProvider(Len(mmProviders) + 1, t, c)
    \/ \E d \in Domains, options \in ContentOptions, embeds \in BOOLEAN :
          StoreContentCall(d, options, embeds)
    \/ StoreChunkIsConnected
    \/ StoreChunkGetQuota
    \/ StoreChunkStore
    \/ StoreChunkThrow
    \/ StoreContentReturn

(***************************************************************************)
(* MemoryMonitor.startMonitoring / stopMonitoring                          *)
(***************************************************************************)
MaxChecks == 3

NoStop == [generated |-> 0, started |-> 0]

\* new MemoryMonitor(): isMonitoring = false, no interval.
TimerIdle ==
    /\ mtMonitoring = FALSE
    /\ mtInterval = 0
    /\ mtTimers = {}
    /\ mtChecks = <<>>
    /\ mtOut = NoStop

TimerFrame == UNCHANGED <<txVars, vsVars, bkVars, mmVars, icVars, lpVars>>

\* The fields a step of a check has written.
Commit(m) ==
    /\ monAlerts' = m.alerts
    /\ monGenerated' = m.generated
    /\ monBucketHistory' = m.bucketHistory
    /\ monProviderHistory' = m.providerHistory
    /\ UNCHANGED <<monConfigured, monConfig, monBuckets, monProviders, monOut>>

\* checkMemoryUsage() is called, lines 355-358: checkBucketSizes runs to
\* its end (it awaits nothing) and the call is suspended at its await; an
\* exception of the alert callback is caught when the call resumes.
BeginCheck ==
    LET sizes == CheckBucketSizes(MonitorFields, Len(monBuckets))
    IN  /\ Commit(sizes)
        /\ monTicks' = monTicks + 1
        /\ mtChecks' = Append(mtChecks, [pc |-> IF sizes.threw THEN "catch" ELSE "isConnected",
                                         i |-> 1])

WithoutCheck(k) == SubSeq(mtChecks, 1, k - 1) \o SubSeq(mtChecks, k + 1, Len(mtChecks))

\* startMonitoring(), lines 207-224.  The interval's handle is named by the
\* number of the check that the call starts.
StartMonitoring ==
    /\ monTicks < MaxChecks
    /\ IF mtMonitoring
       THEN UNCHANGED <<monVars, mtVars>>
       ELSE /\ mtMonitoring' = TRUE
            /\ BeginCheck
            /\ mtInterval' = monTicks + 1
            /\ mtTimers' = mtTimers \cup {monTicks + 1}
            /\ UNCHANGED mtOut
    /\ TimerFrame

\* stopMonitoring(), lines 229-237.  mtOut keeps the number of alerts
\* generated and of checks started when the call returned.
StopMonitoring ==
    /\ IF ~mtMonitoring
       THEN UNCHANGED mtVars
       ELSE /\ mtMonitoring' = FALSE
            /\ mtTimers' = mtTimers \ {mtInterval}
            /\ mtInterval' = 0
            /\ mtOut' = [generated |-> monGenerated, started |-> monTicks]
            /\ UNCHANGED mtChecks
    /\ UNCHANGED monVars
    /\ TimerFrame

\* An interval that has not been cleared fires: lines 221-223.
TimerFires ==
    /\ mtTimers # {}
    /\ monTicks < MaxChecks
    /\ BeginCheck
    /\ UNCHANGED <<mtMonitoring, mtInterval, mtTimers, mtOut>>
    /\ TimerFrame

\* await provider.isConnected() of a suspended check resolves: line 422.
CheckIsConnected(k) ==
    /\ k \in 1..Len(mtChecks)
    /\ mtChecks[k].pc = "isConnected"
    /\ mtChecks[k].i <= Len(monProviders)
    /\ mtChecks' = [mtChecks EXCEPT ![k] =
                       IF monProviders[mtChecks[k].i].connected
                       THEN [pc |-> "getQuota", i |-> @.i]
                       ELSE [pc |-> "isConnected", i |-> @.i + 1]]
    /\ UNCHANGED <<monVars, mtMonitoring, mtInterval, mtTimers, mtOut>>
    /\ TimerFrame

\* await provider.getQuota() settles and the loop body runs to the next
\* await: lines 423-455.
CheckGetQuota(k) ==
    /\ k \in 1..Len(mtChecks)
    /\ mtChecks[k].pc = "getQuota"
    /\ LET provider == [monProviders[mtChecks[k].i] EXCEPT !.connected = TRUE]
           m == CheckProviderCapacity(MonitorFields, provider)
       IN  /\ Commit(m)
           /\ mtChecks' = [mtChecks EXCEPT ![k] =
                              IF m.threw THEN [pc |-> "catch", i |-> @.i]
                              ELSE [pc |-> "isConnected", i |-> @.i + 1]]
    /\ UNCHANGED <<monTicks, mtMonitoring, mtInterval, mtTimers, mtOut>>
    /\ TimerFrame

\* checkProviderCapacities has returned: checkDomainGrowth runs to its end,
\* lines 363-364 and 462-518.
CheckGrowth(k) ==
    /\ k \in 1..Len(mtChecks)
    /\ mtChecks[k].pc = "isConnected"
    /\ mtChecks[k].i > Len(monProviders)
    /\ LET domains == DomainsUpTo(Len(monBuckets))
           m == CheckDomainGrowth(MonitorFields, domains, Len(domains))
       IN  /\ Commit(m)
           /\ mtChecks' = IF m.threw THEN [mtChecks EXCEPT ![k].pc = "catch"]
                          ELSE WithoutCheck(k)
    /\ UNCHANGED <<monTicks, mtMonitoring, mtInterval, mtTimers, mtOut>>
    /\ TimerFrame

\* The catch block of checkMemoryUsage, lines 365-375.
CheckCatch(k) ==
    /\ k \in 1..Len(mtChecks)
    /\ mtChecks[k].pc = "catch"
    /\ Commit(GenerateAlert(MonitorFields, "system", "warning", "monitor"))
    /\ mtChecks' = WithoutCheck(k)
    /\ UNCHANGED <<monTicks, mtMonitoring, mtInterval, mtTimers, mtOut>>
    /\ TimerFrame

\* Default thresholds; the alert callback returns or throws.
TimerConfigurations ==
    {Configured(0, 0, 0, callback) : callback \in {"returns", "throws"}}

TimerBuckets == <<MonBucket("b1", "d1", 10)>>

\* A provider above the capacity threshold, one whose getQuota throws, and
\* a disconnected one.
TimerProviderLists ==
    {<<MonProvider("p1", TRUE, FALSE, 90, 100)>>,
     <<MonProvider("p1", TRUE, TRUE, 90, 100)>>,
     <<MonProvider("p1", FALSE, FALSE, 90, 100), MonProvider("p2", TRUE, FALSE, 50, 100)>>}

TimerNext ==
    \/ monBuckets = <<>> /\ monTicks = 0 /\ RegisterBuckets(TimerBuckets)
    \/ /\ monProviders = <<>>
       /\ monTicks = 0
       /\ \E providers \in TimerProviderLists : RegisterProviders(providers)
    \/ StartMonitoring
    \/ StopMonitoring
    \/ TimerFires
    \/ \E k \in 1..MaxChecks : CheckIsConnected(k)
    \/ \E k \in 1..MaxChecks : CheckGetQuota(k)
    \/ \E k \in 1..MaxChecks : CheckGrowth(k)
    \/ \E k \in 1..MaxChecks : CheckCatch(k)

(***************************************************************************)
(* LocalStorageProvider                                                    *)
(***************************************************************************)
\* maxSizeBytes of the provider, and the calls made on it.
MaxSizeBytes == 3

MaxCalls == 3

\* dataBuffer.length of a store call.
DataLengths == {1, 2}

\* The size of the .meta file a store with metadata writes.
MetaBytes == 1

NoLocalCall == [op |-> "none", status |-> "none", error |-> "none", length |-> 0]

\* A provider after connect() on an empty directory, lines 153-167.
LocalIdle ==
    /\ lpCurrent = 0
    /\ lpDisk = 0
    /\ lpAccepted = 0
    /\ lpCalls = <<>>
    /\ lpStarted = 0
    /\ lpOut = NoLocalCall

LocalFrame == UNCHANGED <<txVars, vsVars, bkVars, mmVars, monVars, icVars, mtVars>>

WithoutCall(k) == SubSeq(lpCalls, 1, k - 1) \o SubSeq(lpCalls, k + 1, Len(lpCalls))

\* The space check of line 191, negated.
HasSpace(length) == ~(lpCurrent + length > MaxSizeBytes)

\* store(data, metadata) is called, lines 183-199: the space check, then
\* the call is suspended at fs.mkdir.
LocalStoreCall(length, metadata) ==
    /\ lpStarted < MaxCalls
    /\ lpStarted' = lpStarted + 1
    /\ IF HasSpace(length)
       THEN /\ lpCalls' = Append(lpCalls, [op |-> "store", pc |-> "mkdir", length |-> length,
                                           metadata |-> metadata, size |-> 0])
            /\ UNCHANGED lpOut
       ELSE /\ lpOut' = [op |-> "store", status |-> "threw",
                         error |-> "Not enough space available", length |-> length]
            /\ UNCHANGED lpCalls
    /\ UNCHANGED <<lpCurrent, lpDisk, lpAccepted>>
    /\ LocalFrame

\* line 199: fs.mkdir resolves; the call is suspended at fs.writeFile.
LocalStoreMkdir(k) ==
    /\ k \in 1..Len(lpCalls)
    /\ lpCalls[k].pc = "mkdir"
    /\ lpCalls' = [lpCalls EXCEPT ![k].pc = "writeFile"]
    /\ UNCHANGED <<lpCurrent, lpDisk, lpAccepted, lpStarted, lpOut>>
    /\ LocalFrame

\* line 202: the data file is written.
LocalStoreWriteFile(k) ==
    /\ k \in 1..Len(lpCalls)
    /\ lpCalls[k].pc = "writeFile"
    /\ lpDisk' = lpDisk + lpCalls[k].length
    /\ lpAccepted' = lpAccepted + lpCalls[k].length
    /\ lpCalls' = [lpCalls EXCEPT ![k].pc = IF lpCalls[k].metadata THEN "writeMeta"
                                            ELSE "update"]
    /\ UNCHANGED <<lpCurrent, lpStarted, lpOut>>
    /\ LocalFrame

\* lines 205-207: the .meta file is written.
LocalStoreWriteMeta(k) ==
    /\ k \in 1..Len(lpCalls)
    /\ lpCalls[k].pc = "writeMeta"
    /\ lpDisk' = lpDisk + MetaBytes
    /\ lpCalls' = [lpCalls EXCEPT ![k].pc = "update"]
    /\ UNCHANGED <<lpCurrent, lpAccepted, lpStarted, lpOut>>
    /\ LocalFrame

\* lines 209-215: the call resumes after its last await, adds the length
\* to currentSizeBytes and returns the location.
LocalStoreReturn(k) ==
    /\ k \in 1..Len(lpCalls)
    /\ lpCalls[k].pc = "update"
    /\ lpCurrent' = lpCurrent + lpCalls[k].length
    /\ lpOut' = [op |-> "store", status |-> "stored", error |-> "none",
                 length |-> lpCalls[k].length]
    /\ lpCalls' = WithoutCall(k)
    /\ UNCHANGED <<lpDisk, lpAccepted, lpStarted>>
    /\ LocalFrame

\* getQuota() is called, lines 316-322: it is suspended in
\* calculateDirectorySize.
LocalGetQuotaCall ==
    /\ lpStarted < MaxCalls
    /\ lpStarted' = lpStarted + 1
    /\ lpCalls' = Append(lpCalls, [op |-> "getQuota", pc |-> "scan", length |-> 0,
                                   metadata |-> FALSE, size |-> 0])
    /\ UNCHANGED <<lpCurrent, lpDisk, lpAccepted, lpOut>>
    /\ LocalFrame

\* calculateDirectorySize, lines 337-358: the sizes of the files found.
LocalGetQuotaScan(k) ==
    /\ k \in 1..Len(lpCalls)
    /\ lpCalls[k].pc = "scan"
    /\ lpCalls' = [lpCalls EXCEPT ![k].pc = "assign", ![k].size = lpDisk]
    /\ UNCHANGED <<lpCurrent, lpDisk, lpAccepted, lpStarted, lpOut>>
    /\ LocalFrame

\* lines 322-328: currentSizeBytes is replaced by the size found.
LocalGetQuotaReturn(k) ==
    /\ k \in 1..Len(lpCalls)
    /\ lpCalls[k].pc = "assign"
    /\ lpCurrent' = lpCalls[k].size
    /\ lpOut' = [op |-> "getQuota", status |-> "returned", error |-> "none",
                 length |-> lpCalls[k].size]
    /\ lpCalls' = WithoutCall(k)
    /\ UNCHANGED <<lpDisk, lpAccepted, lpStarted>>
    /\ LocalFrame

LocalNext ==
    \/ \E length \in DataLengths, metadata \in BOOLEAN : LocalStoreCall(length, metadata)
    \/ \E k \in 1..MaxCalls : LocalStoreMkdir(k)
    \/ \E k \in 1..MaxCalls : LocalStoreWriteFile(k)
    \/ \E k \in 1..MaxCalls : LocalStoreWriteMeta(k)
    \/ \E k \in 1..MaxCalls : LocalStoreReturn(k)
    \/ LocalGetQuotaCall
    \/ \E k \in 1..MaxCalls : LocalGetQuotaScan(k)
    \/ \E k \in 1..MaxCalls : LocalGetQuotaReturn(k)

TxNext ==
    \/ \E ops \in OperationLists : TxCall(ops)
    \/ TxExecuteCall
    \/ TxExecuteResolve
    \/ TxExecuteReject
    \/ TxCommit
    \/ TxCatch
    \/ TxRollbackCall
    \/ TxRollbackResolve
    \/ TxRollbackReject
    \/ TxReturnRolledBack

InitTx == TxInit /\ VSIdle /\ BucketInit /\ MMInit /\ MonIdle /\ ContentIdle /\ TimerIdle /\ LocalIdle

SpecTx == InitTx /\ [][TxNext]_vars

VSNext ==
    \/ \E e \in VSEmbeddings : VSAddChunkCall(e)
    \/ \E q \in VSQueries, k \in 0..MaxK : VSSearchCall(q, k)
    \/ VSSearchReturn

InitVS == VSInit /\ TxInit /\ BucketInit /\ MMInit /\ MonIdle /\ ContentIdle /\ TimerIdle /\ LocalIdle

SpecVS == InitVS /\ [][VSNext]_vars

InitBucket == BucketInit /\ TxInit /\ VSIdle /\ MMInit /\ MonIdle /\ ContentIdle /\ TimerIdle /\ LocalIdle

SpecBucket == InitBucket /\ [][BucketNext]_vars

SpecSearch == InitBucket /\ [][SearchNext]_vars

SpecChunks == InitBucket /\ [][ChunksNext]_vars

SpecForest == InitBucket /\ [][ForestNext]_vars

InitMM == MMInit /\ TxInit /\ VSIdle /\ BucketInit /\ MonIdle /\ ContentIdle /\ TimerIdle /\ LocalIdle

SpecMM == InitMM /\ [][MMNext]_vars

SpecLife == InitMM /\ [][LifeNext]_vars

MonIdleRest == TxInit /\ VSIdle /\ BucketInit /\ MMInit /\ ContentIdle /\ TimerIdle /\ LocalIdle

InitSize == MonitorConstructed(SizeConfigurations) /\ MonIdleRest

SpecSize == InitSize /\ [][SizeNext]_vars

InitAlerts == MonIdle /\ MonIdleRest

SpecAlerts == InitAlerts /\ [][AlertsNext]_vars

SpecHistory == InitAlerts /\ [][HistoryNext]_vars

InitCapacity == MonitorConstructed(CapacityConfigurations) /\ MonIdleRest

SpecCapacity == InitCapacity /\ [][CapacityNext]_vars

InitGrowth == MonitorConstructed(GrowthConfigurations) /\ MonIdleRest

SpecGrowth == InitGrowth /\ [][GrowthNext]_vars

InitContent ==
    ContentInit /\ ContentIdle /\ BucketInit /\ TxInit /\ VSIdle /\ MonIdle /\ TimerIdle /\ LocalIdle

SpecContent == InitContent /\ [][ContentNext]_vars

InitTimer == MonitorConstructed(TimerConfigurations) /\ MonIdleRest

SpecTimer == InitTimer /\ [][TimerNext]_vars

InitLocal == LocalIdle /\ TimerIdle /\ ContentIdle /\ MMInit /\ BucketInit /\ TxInit /\ VSIdle /\ MonIdle

SpecLocal == InitLocal /\ [][LocalNext]_vars


(***************************************************************************)
(* Claims about executeTransaction                                         *)
(***************************************************************************)
FailingSteps == {i \in 1..Len(txOps) : txOps[i].exec # "ok"}

\* The step whose execute is the first to fail (0: none fails).  Executes
\* run in list order, so it is the least failing index.
FirstFailed ==
    IF FailingSteps = {} THEN 0
    ELSE CHOOSE i \in FailingSteps : \A j \in FailingSteps : i <= j

IsRollbackCall(c) == c.op = "rollback"

RollbackCalls == SelectSeq(txCalls, IsRollbackCall)

StepsOf(calls) == [k \in 1..Len(calls) |-> calls[k].step]

Descending(n) == [k \in 1..n |-> n + 1 - k]

ValuesUpTo(n) == [k \in 1..n |-> txOps[k].value]

\* A rollback that was invoked and rejected.
SomeRollbackRejected ==
    \E k \in 1..Len(RollbackCalls) : txOps[RollbackCalls[k].step].rb # "ok"

NoNilRejection ==
    \A i \in 1..Len(txOps) : txOps[i].exec # "nil" /\ txOps[i].rb # "nil"

\* C1: when the execute of step i is the first to fail, the rollbacks
\* invoked are exactly those of steps i-1, ..., 1, once each and in that
\* order, and the returned status is RolledBack.
C1_RollbackOrder ==
    (txPc = "done" /\ FirstFailed # 0) =>
        /\ StepsOf(RollbackCalls) = Descending(FirstFailed - 1)
        /\ txReturn.status = "rolled_back"

\* C1, for operations that reject only with Error objects: the claim holds.
RollbackOrderForErrors ==
    (txPc = "done" /\ FirstFailed # 0 /\ NoNilRejection) =>
        /\ StepsOf(RollbackCalls) = Descending(FirstFailed - 1)
        /\ txReturn.status = "rolled_back"

\* C2: when every execute succeeds, the result is Committed, results[j] is
\* the value of the j-th execute for all N operations, and no rollback is
\* invoked.
C2_AllSucceedCommitted ==
    (txPc = "done" /\ FailingSteps = {}) =>
        /\ txReturn.status = "committed"
        /\ Len(txReturn.results) = Len(txOps)
        /\ txReturn.results = ValuesUpTo(Len(txOps))
        /\ RollbackCalls = <<>>

C2_Witness ==
    /\ txPc = "done"
    /\ FailingSteps = {}
    /\ Len(txOps) >= 2
    /\ txReturn.results[1] # txReturn.results[2]

\* C3: when a rollback raises an error, every remaining rollback is still
\* invoked, in reverse order, and the status is still RolledBack.
C3_RollbackErrorsSwallowed ==
    (txPc = "done" /\ FirstFailed # 0 /\ SomeRollbackRejected) =>
        /\ StepsOf(RollbackCalls) = Descending(FirstFailed - 1)
        /\ txReturn.status = "rolled_back"

\* C4: on any execute failure the returned result carries the error that
\* execute raised, and the results of exactly the steps before the failure.
C4_OriginalErrorReported ==
    (txPc = "done" /\ FirstFailed # 0) =>
        /\ txReturn.error = [kind |-> txOps[FirstFailed].exec, by |-> "execute",
                             step |-> FirstFailed]
        /\ txReturn.results = ValuesUpTo(FirstFailed - 1)

\* C5: when every rollback undoes its execute and succeeds, the external
\* state after the call either holds the effects of all operations
\* (Committed) or is the state before the call (RolledBack).
AllRollbacksSucceed == \A i \in 1..Len(txOps) : txOps[i].rb = "ok"

C5_AllOrNothing ==
    (txPc = "done" /\ AllRollbacksSucceed) =>
        \/ /\ txReturn.status = "committed"
           /\ txEffects = 1..Len(txOps)
           /\ txPartial = {}
        \/ /\ txReturn.status = "rolled_back"
           /\ txEffects = {}
           /\ txPartial = {}

\* C5, for failing executes that reject with an Error and leave nothing behind.
AllOrNothingForCleanFailures ==
    (txPc = "done" /\ AllRollbacksSucceed /\ NoNilRejection
        /\ \A i \in 1..Len(txOps) : ~txOps[i].partial) =>
        \/ txReturn.status = "committed" /\ txEffects = 1..Len(txOps)
        \/ txReturn.status = "rolled_back" /\ txEffects = {} /\ txPartial = {}


(***************************************************************************)
(* Claims about VectorStore                                                *)
(***************************************************************************)
Min(a, b) == IF a < b THEN a ELSE b

NonIncreasing(results) ==
    \A i, j \in 1..Len(results) :
        i < j => ~ScoreGT(results[j].score, results[i].score)

\* C6: addChunk of a chunk whose embedding length differs from the store's
\* dimension fails and leaves the store as it was, and no later search
\* returns such a chunk.
C6_DimensionMismatchRejected ==
    /\ (vsOut.op = "addChunk" /\ Len(vsOut.embedding.dir) # Dim) =>
          (vsOut.threw /\ Len(vsChunks) = vsOut.sizeBefore)
    /\ (vsOut.op = "search" /\ ~vsOut.threw) =>
          \A i \in 1..Len(vsOut.results) :
              Len(vsOut.results[i].chunk.embedding.dir) = Dim

\* C7: search(query, k) with a query of the store's dimension returns
\* exactly min(k, size()) results, ordered by non-increasing score.
C7_SearchTopK ==
    (vsOut.op = "search" /\ Len(vsOut.embedding.dir) = Dim) =>
        /\ ~vsOut.threw
        /\ Len(vsOut.results) = Min(vsOut.k, vsOut.sizeBefore)
        /\ NonIncreasing(vsOut.results)

\* C7, for a store that holds only embeddings of its dimension.
SearchTopKWhenDimensionsAgree ==
    (/\ vsOut.op = "search"
     /\ Len(vsOut.embedding.dir) = Dim
     /\ \A i \in 1..Len(vsChunks) : Len(vsChunks[i].embedding.dir) = Dim) =>
        /\ ~vsOut.threw
        /\ Len(vsOut.results) = Min(vsOut.k, vsOut.sizeBefore)
        /\ NonIncreasing(vsOut.results)


(***************************************************************************)
(* Claims about Bucket                                                     *)
(***************************************************************************)
StoredIn(b) == {bkBuckets[b].chunks[i] : i \in 1..Len(bkBuckets[b].chunks)}

\* C8: every chunk stored in a bucket's index has metadata.domain equal to
\* that bucket's domain.
C8_StoredDomainIsBucketDomain ==
    \A b \in 1..Len(bkBuckets) :
        \A r \in StoredIn(b) : bkHeap[r].domain = bkBuckets[b].domain

\* C8, for chunk objects that were handed to one bucket only.
StoredDomainIsBucketDomainUnlessShared ==
    \A b \in 1..Len(bkBuckets) :
        \A r \in StoredIn(b) :
            (\A c \in 1..Len(bkBuckets) : r \in StoredIn(c) => c = b) =>
                bkHeap[r].domain = bkBuckets[b].domain

RECURSIVE ChildResults(_, _, _, _)
\* The results of the first n sub-buckets' recursive searches, concatenated.
ChildResults(subBuckets, n, queryVector, k) ==
    IF n = 0 THEN <<>>
    ELSE ChildResults(subBuckets, n - 1, queryVector, k)
            \o BucketSearch(subBuckets[n], queryVector, k, TRUE).results

\* The place of list[i] once the list is sorted by descending score, equal
\* scores staying in list order.
Rank(list, i) ==
    1 + Cardinality({j \in 1..Len(list) : ScoreGT(list[j].score, list[i].score)})
      + Cardinality({j \in 1..(i - 1) : ScoreEQ(list[j].score, list[i].score)})

SortedAndCut(results, list, k) ==
    /\ Len(results) = Min(k, Len(list))
    /\ \A i \in 1..Len(list) :
          Rank(list, i) <= k => results[Rank(list, i)] = list[i]

\* C9: a recursive search of a bucket with children returns the local
\* results and each child's recursive results, concatenated, sorted by
\* descending score and cut to k (and fails when one of those searches
\* fails); a non-recursive search returns the local results.
C9_RecursiveSearchMerges ==
    bkOut.op = "search" =>
        LET b == bkOut.bucket
            kids == bkBuckets[b].subBuckets
            local == VSSearch(BucketMetric, ChunksOf(b), bkOut.query, bkOut.k)
            childThrows == \E n \in 1..Len(kids) :
                              BucketSearch(kids[n], bkOut.query, bkOut.k, TRUE).threw
            list == local.results \o ChildResults(kids, Len(kids), bkOut.query, bkOut.k)
        IN  /\ (bkOut.recursive /\ Len(kids) > 0) =>
                  IF local.threw \/ childThrows THEN bkOut.threw
                  ELSE ~bkOut.threw /\ SortedAndCut(bkOut.results, list, bkOut.k)
            /\ ~bkOut.recursive =>
                  (bkOut.threw = local.threw /\ bkOut.results = local.results)

\* A recursive search whose best result is a sub-bucket's chunk and whose
\* merged list is longer than k.
C9_Witness ==
    /\ bkOut.op = "search"
    /\ bkOut.recursive
    /\ ~bkOut.threw
    /\ Len(bkBuckets[bkOut.bucket].subBuckets) > 0
    /\ bkOut.k >= 1
    /\ Len(bkOut.results) = bkOut.k
    /\ bkOut.results[1].chunk.id \notin StoredIn(bkOut.bucket)
    /\ Len(bkBuckets[bkOut.bucket].chunks) >= 1
    /\ Len(ChildResults(bkBuckets[bkOut.bucket].subBuckets,
                        Len(bkBuckets[bkOut.bucket].subBuckets), bkOut.query, bkOut.k))
          >= bkOut.k

(***************************************************************************)
(* Claims about MemoryManager.storeChunk                                   *)
(***************************************************************************)
Registered == 1..Len(mmProviders)

TierOf(p) == mmProviders[p].tier

\* Connected, with a quota that can be read and is large enough.
Provisioned(p) ==
    /\ mmProviders[p].condition.connected
    /\ ~mmProviders[p].condition.quotaThrows
    /\ mmProviders[p].condition.available >= ChunkSize

Takes(p) == Provisioned(p) /\ mmProviders[p].condition.accepts

StoredAt(p) ==
    /\ mmResult.status = "stored"
    /\ mmResult.location.providerId = p
    /\ mmLocations[mmCall.chunk] = mmResult.location

LowestTierOf(p, S) == p \in S /\ \A q \in S : TierOf(p) <= TierOf(q)

\* C10: when a provider of the preferred tier is connected, has the quota
\* and accepts the store, the chunk is stored in a provider of that tier;
\* otherwise it is stored in the connected, sufficiently provisioned provider
\* of the lowest tier among the providers of the other tiers.
C10_PreferredTierThenLowest ==
    mmPc = "done" =>
        LET T == mmCall.preferredTier
            preferred == {p \in Registered : TierOf(p) = T /\ Takes(p)}
            remaining == {p \in Registered : TierOf(p) # T /\ Provisioned(p)}
        IN  /\ preferred # {} => \E p \in Registered : TierOf(p) = T /\ StoredAt(p)
            /\ (preferred = {} /\ remaining # {}) =>
                  \E p \in remaining : StoredAt(p) /\ LowestTierOf(p, remaining)

\* C10, with a fallback that accepts the store: when a provider of the
\* preferred tier is connected, has the quota and accepts the store, the
\* chunk is stored in a provider of that tier; otherwise it is stored in the
\* provider of the lowest tier among the providers of the other tiers that
\* are connected, sufficiently provisioned and accept the store, if any.
C10_PreferredTierThenLowestAccepting ==
    mmPc = "done" =>
        LET T == mmCall.preferredTier
            preferred == {p \in Registered : TierOf(p) = T /\ Takes(p)}
            remaining == {p \in Registered : TierOf(p) # T /\ Takes(p)}
        IN  /\ preferred # {} => \E p \in Registered : TierOf(p) = T /\ StoredAt(p)
            /\ (preferred = {} /\ remaining # {}) =>
                  \E p \in remaining : StoredAt(p) /\ LowestTierOf(p, remaining)

\* A call that fell back past the preferred tier and past a provisioned
\* provider of a lower tier that rejected the store.
C10_Witness ==
    /\ mmPc = "done"
    /\ \E p, q, r \in Registered :
          /\ StoredAt(p)
          /\ TierOf(p) # mmCall.preferredTier
          /\ TierOf(q) < TierOf(p)
          /\ TierOf(q) # mmCall.preferredTier
          /\ Provisioned(q)
          /\ ~mmProviders[q].condition.accepts
          /\ TierOf(r) = mmCall.preferredTier
          /\ mmCall.preferredTier > TierOf(p)

StoreInvoked == \E i \in 1..Len(mmLog) : mmLog[i].op = "store"

\* C11: when no registered provider is connected with an available quota of
\* at least the serialized chunk size, storeChunk fails with an error, no
\* provider's store is invoked and chunkLocations stays as the call found it.
C11_NoCapacityFails ==
    (mmPc # "idle" /\ \A p \in Registered : ~Provisioned(p)) =>
        /\ ~StoreInvoked
        /\ mmLocations = mmCall.before
        /\ mmPc = "done" => mmResult.status = "threw"

\* A failed call that asked a connected provider that is one byte short and
\* one whose getQuota throws.
C11_Witness ==
    /\ mmPc = "done"
    /\ mmResult.status = "threw"
    /\ \A p \in Registered : ~Provisioned(p)
    /\ \E p, q \in Registered :
          /\ mmProviders[p].condition = Short
          /\ mmProviders[q].condition = QuotaFails
          /\ \E i, j \in 1..Len(mmLog) :
                /\ mmLog[i] = [by |-> p, op |-> "getQuota"]
                /\ mmLog[j] = [by |-> q, op |-> "getQuota"]

(***************************************************************************)
(* Claims about chunkLocations and retrieveChunk                           *)
(***************************************************************************)
\* The data a location names is still there: its provider is registered and
\* holds data at the location.
Live(location) == IsRegistered(location.providerId) /\ location \in mmData

\* C12: chunkLocations holds an entry for a chunk id exactly when a
\* storeChunk for it succeeded and the stored data was not deleted since, by
\* the provider's delete or by removal of the provider; the entry is the
\* location the successful store returned.
C12_LocationIffStoredAndLive ==
    /\ \A c \in ChunkIds : mmLocations[c] # NoLocation => Live(mmLocations[c])
    /\ (mmPc = "done" /\ mmResult.status = "stored") =>
          mmLocations[mmCall.chunk] = mmResult.location

\* C12, without the deletions: an entry is a location at which a provider
\* once stored data for the chunk.
LocationWasStored ==
    /\ \A c \in ChunkIds :
          mmLocations[c] # NoLocation => mmLocations[c].key \in 1..mmStores
    /\ (mmPc = "done" /\ mmResult.status = "stored") =>
          mmLocations[mmCall.chunk] = mmResult.location

\* C13: retrieveChunk fails with a location-not-found error when the id has
\* no recorded location, with a provider-not-found error when the recorded
\* location's provider is not registered, and leaves chunkLocations as it
\* found it in every outcome.
C13_RetrieveLeavesLocations ==
    mmPc \in {"retrieve", "retrieved"} =>
        LET location == mmCall.before[mmCall.chunk]
        IN  /\ mmLocations = mmCall.before
            /\ location = NoLocation =>
                  (mmPc = "retrieved" /\ mmResult.status = "threw"
                     /\ mmResult.error.op = "Chunk location not found")
            /\ (location # NoLocation /\ ~IsRegistered(location.providerId)) =>
                  (mmPc = "retrieved" /\ mmResult.status = "threw"
                     /\ mmResult.error.op = "Storage provider not found")

\* A retrieveChunk that found the location of a removed provider.
C13_Witness ==
    /\ mmPc = "retrieved"
    /\ mmResult.error.op = "Storage provider not found"
    /\ mmLocations[mmCall.chunk] # NoLocation
    /\ Len(mmProviders) > 0

(***************************************************************************)
(* Claims about MemoryMonitor                                              *)
(***************************************************************************)
\* A tick has just run.
Ticked == monOut.op = "tick"

\* The alerts the last tick generated that are still retained.
TickAlerts ==
    LET New(alert) == alert.id > monOut.generatedBefore
    IN  SelectSeq(monAlerts, New)

\* The severities of the alerts of a type the last tick generated about a
\* subject, in order.
TickSeverities(type, subject) ==
    LET About(alert) == alert.type = type /\ alert.subject = subject
        chosen == SelectSeq(TickAlerts, About)
    IN  [i \in 1..Len(chosen) |-> chosen[i].severity]

\* What a tick with a threshold of 100 MB emits about a bucket whose
\* estimate is sizeKB / 1024 MB.
SizeRule(bucket, sizeKB) ==
    TickSeverities("bucket-size", bucket.id) =
        IF sizeKB > 2 * 100 * 1024 THEN <<"critical">>
        ELSE IF sizeKB > 100 * 1024 THEN <<"warning">>
        ELSE <<>>

\* C14: with a threshold of 100 MB and 5 KB per chunk, a tick emits a
\* bucket-size warning for a registered bucket of 20,001 chunks and a
\* critical alert for one of 40,001 chunks; in general critical when the
\* estimate exceeds twice the threshold, warning when it lies between the
\* threshold and twice the threshold.
C14_BucketSizeAlerts ==
    (Ticked /\ monConfig.bucketSizeThresholdMB = 100) =>
        \A i \in 1..Len(monBuckets) :
            LET bucket == monBuckets[i]
            IN  /\ bucket.chunkCount = 20001 =>
                      TickSeverities("bucket-size", bucket.id) = <<"warning">>
                /\ bucket.chunkCount = 40001 =>
                      TickSeverities("bucket-size", bucket.id) = <<"critical">>
                /\ SizeRule(bucket, bucket.chunkCount * 5)

\* C14, with the chunk counts at which the estimate of chunkCount * 5 / 1024
\* MB passes the limits: the first warning comes at 20,481 chunks and the
\* first critical alert at 40,961; 20,001 chunks give no alert and 40,001 a
\* warning.  The rule on the estimate holds as stated.
C14_BucketSizeAlertsOn1024 ==
    (Ticked /\ monConfig.bucketSizeThresholdMB = 100) =>
        \A i \in 1..Len(monBuckets) :
            LET bucket == monBuckets[i]
                severities == TickSeverities("bucket-size", bucket.id)
            IN  /\ bucket.chunkCount = 20001 => severities = <<>>
                /\ bucket.chunkCount = 20480 => severities = <<>>
                /\ bucket.chunkCount = 20481 => severities = <<"warning">>
                /\ bucket.chunkCount = 40001 => severities = <<"warning">>
                /\ bucket.chunkCount = 40960 => severities = <<"warning">>
                /\ bucket.chunkCount = 40961 => severities = <<"critical">>
                /\ SizeRule(bucket, bucket.chunkCount * 5)

\* A tick has judged a bucket of 20,481 chunks and one of 40,961 chunks.
C14_Witness ==
    /\ Ticked
    /\ monConfig.bucketSizeThresholdMB = 100
    /\ Len(monBuckets) = 2
    /\ monBuckets[1].chunkCount = 20481
    /\ monBuckets[2].chunkCount = 40961
    /\ TickSeverities("bucket-size", "b1") = <<"warning">>
    /\ TickSeverities("bucket-size", "b2") = <<"critical">>

\* acknowledgeAlert has just returned.
Acknowledged == monOut.op = "acknowledge"

\* The alert list holds an alert with the id.
Retains(alerts, alertId) == \E i \in 1..Len(alerts) : alerts[i].id = alertId

\* C15: acknowledgeAlert(id) for the id of a retained alert sets that
\* alert's flag and returns true, after which the alert is absent from
\* getAlerts(false) and present in getAlerts(true); for any other id it
\* returns false and changes no alert.
C15_AcknowledgeAlert ==
    Acknowledged =>
        LET before == monOut.alertsBefore
            alertId == monOut.id
        IN  IF Retains(before, alertId)
            THEN /\ monOut.returned = TRUE
                 /\ Len(monAlerts) = Len(before)
                 /\ \A i \in 1..Len(before) :
                       monAlerts[i] = IF before[i].id = alertId
                                      THEN [before[i] EXCEPT !.acknowledged = TRUE]
                                      ELSE before[i]
                 /\ ~Retains(GetAlerts(monAlerts, FALSE), alertId)
                 /\ Retains(GetAlerts(monAlerts, TRUE), alertId)
            ELSE /\ monOut.returned = FALSE
                 /\ monAlerts = before

\* An alert that was open has been acknowledged while others stay open.
C15_Witness ==
    /\ Acknowledged
    /\ monOut.returned
    /\ \E i \in 1..Len(monOut.alertsBefore) :
          /\ monOut.alertsBefore[i].id = monOut.id
          /\ ~monOut.alertsBefore[i].acknowledged
    /\ Len(GetAlerts(monAlerts, FALSE)) > 0
    /\ Len(GetAlerts(monAlerts, FALSE)) < Len(GetAlerts(monAlerts, TRUE))

\* C16: at most 100 alerts are retained; an alert generated while 100 are
\* retained evicts exactly the oldest one, whatever its severity and its
\* flag, and the retained alerts stay in generation order.  For a tick:
\* the alerts after it are the last 100 of the alerts before it followed by
\* the alerts it generated.
C16_OldestEvicted ==
    /\ Len(monAlerts) <= 100
    /\ \A i \in 1..(Len(monAlerts) - 1) : monAlerts[i].id < monAlerts[i + 1].id
    /\ Ticked =>
          LET before == monOut.alertsBefore
              generated == monGenerated - monOut.generatedBefore
              evicted == IF Len(before) + generated > 100
                         THEN Len(before) + generated - 100 ELSE 0
          IN  /\ Len(monAlerts) = Len(before) + generated - evicted
              /\ \A i \in 1..(Len(before) - evicted) : monAlerts[i] = before[i + evicted]
              /\ \A i \in (Len(before) - evicted + 1)..Len(monAlerts) :
                    monAlerts[i].id > monOut.generatedBefore

\* A tick has evicted alerts from a full list whose oldest alert was
\* critical and acknowledged.
C16_Witness ==
    /\ Ticked
    /\ Len(monOut.alertsBefore) = 100
    /\ monGenerated > monOut.generatedBefore
    /\ monOut.alertsBefore[1].severity = "critical"
    /\ monOut.alertsBefore[1].acknowledged
    /\ monAlerts[1].id > monOut.alertsBefore[1].id

\* C17: a tick never rejects; when something inside a check fails, a system
\* alert is recorded and the tick completes.
C17_TickNeverRejects ==
    Ticked =>
        /\ monOut.status = "completed"
        /\ (\E i \in 1..Len(monProviders) :
               monProviders[i].connected /\ monProviders[i].quotaThrows)
              => \E j \in 1..Len(TickAlerts) : TickAlerts[j].type = "system"

\* C17, without a throwing alert callback: a failing getQuota becomes a
\* system alert and the tick completes.
TickCompletesWithoutThrowingCallback ==
    (Ticked /\ monConfig.alertCallback # "throws") => C17_TickNeverRejects

\* C18: a tick emits, for each connected provider, a critical
\* provider-capacity alert when its usage exceeds 95 percent, a warning when
\* the usage lies between the configured threshold and 95, and nothing
\* otherwise, for every configured threshold; a disconnected provider gets
\* no alert and no history sample.
C18_CapacityAlerts ==
    Ticked =>
        \A i \in 1..Len(monProviders) :
            LET provider == monProviders[i]
                severities == TickSeverities("provider-capacity", provider.id)
                threshold == monConfigured.providerCapacityThresholdPercent
            IN  IF provider.connected
                THEN severities =
                        IF provider.used * 100 > 95 * provider.total THEN <<"critical">>
                        ELSE IF provider.used * 100 > threshold * provider.total
                             THEN <<"warning">>
                             ELSE <<>>
                ELSE /\ severities = <<>>
                     /\ monProviderHistory[provider.id] =
                           monOut.providerHistoryBefore[provider.id]

\* C18, for a threshold between 1 and 95 and a tick in which nothing throws.
CapacityAlertsUpTo95 ==
    (/\ monConfigured.providerCapacityThresholdPercent \in 1..95
     /\ monConfig.alertCallback # "throws"
     /\ \A i \in 1..Len(monProviders) : ~monProviders[i].quotaThrows)
        => C18_CapacityAlerts

RECURSIVE DomainNow(_, _)
\* The estimated size (in KB) of a domain over the first n registered buckets.
DomainNow(domain, n) ==
    IF n = 0 THEN 0
    ELSE DomainNow(domain, n - 1)
            + (IF monBuckets[n].domain = domain THEN monBuckets[n].chunkCount * 5 ELSE 0)

RECURSIVE DomainBefore(_, _)
\* The sum of the previous-tick samples of the domain's buckets: after a
\* tick, the second-most-recent entry of each history that has one.
DomainBefore(domain, n) ==
    IF n = 0 THEN 0
    ELSE LET history == monBucketHistory[monBuckets[n].id]
         IN  DomainBefore(domain, n - 1)
                + (IF monBuckets[n].domain = domain /\ Len(history) >= 2
                   THEN history[Len(history) - 1] ELSE 0)

\* What a tick emits about a domain under a growth threshold, when the
\* domain has previous samples.
GrowthRule(domain, threshold) ==
    LET now == DomainNow(domain, Len(monBuckets))
        before == DomainBefore(domain, Len(monBuckets))
        severities == TickSeverities("domain-growth", domain)
    IN  before > 0 =>
            /\ severities =
                  IF (now - before) * 100 > 2 * threshold * before THEN <<"warning">>
                  ELSE IF (now - before) * 100 > threshold * before THEN <<"info">>
                  ELSE <<>>
            /\ now = before => severities = <<>>

\* C19: for each domain a tick compares the sum of the estimates of its
\* buckets with the sum of their previous-tick samples and emits a
\* domain-growth warning when the growth exceeds twice the configured
\* threshold, an info alert when it lies between the threshold and twice
\* the threshold, and nothing otherwise, in particular nothing when the
\* size did not change.
C19_DomainGrowthAlerts ==
    Ticked =>
        \A i \in 1..Len(monBuckets) :
            GrowthRule(monBuckets[i].domain, monConfigured.domainGrowthThresholdPercent)

\* C19, for the threshold the monitor holds: the configured one unless that
\* is 0.
DomainGrowthAlertsOnHeldThreshold ==
    Ticked =>
        \A i \in 1..Len(monBuckets) :
            GrowthRule(monBuckets[i].domain, monConfig.domainGrowthThresholdPercent)

\* A tick has found a domain of two buckets grown by more than 100 percent.
DomainGrowthWarned ==
    /\ Ticked
    /\ Len(monBuckets) = 2
    /\ monBuckets[1].domain = monBuckets[2].domain
    /\ DomainBefore("d1", 2) > 0
    /\ TickSeverities("domain-growth", "d1") = <<"warning">>

(***************************************************************************)
(* Claims about Bucket.getAllChunks and Bucket.getChunkCount               *)
(***************************************************************************)
RECURSIVE AddedTo(_, _)
RECURSIVE AddedToSubs(_, _)
\* The chunks added to a bucket, followed (if recursive) by those added to
\* each of its sub-buckets and their descendants.
AddedTo(b, recursive) ==
    bkBuckets[b].chunks
        \o (IF recursive
            THEN AddedToSubs(bkBuckets[b].subBuckets, Len(bkBuckets[b].subBuckets))
            ELSE <<>>)

AddedToSubs(subBuckets, n) ==
    IF n = 0 THEN <<>>
    ELSE AddedToSubs(subBuckets, n - 1) \o AddedTo(subBuckets[n], TRUE)

\* getAllChunks has just been called.
Listed == bkOut.op = "getAllChunks"

\* C20: getChunkCount(recursive) is the number of chunks added to the
\* bucket (and, if recursive, to its descendants), and getAllChunks(recursive)
\* returns exactly those chunks, each once, the local ones first and then
\* each child's, so that its length is getChunkCount(recursive).
C20_AllChunksAndCount ==
    Listed =>
        /\ bkOut.count = Len(AddedTo(bkOut.bucket, bkOut.recursive))
        /\ ~bkOut.threw
        /\ bkOut.results = AddedTo(bkOut.bucket, bkOut.recursive)
        /\ Len(bkOut.results) = bkOut.count

\* C20, the half about getChunkCount: it is the number of chunks added.
ChunkCountIsAdded ==
    Listed => bkOut.count = Len(AddedTo(bkOut.bucket, bkOut.recursive))

\* The chunks of a parent with a chunk and a child with a chunk have been
\* counted recursively.
ChunkCountWitness ==
    /\ Listed
    /\ bkOut.recursive
    /\ Len(bkBuckets[bkOut.bucket].chunks) > 0
    /\ bkOut.count > Len(bkBuckets[bkOut.bucket].chunks)

\* The place of a provider among the sorted candidates of the call.
PlaceOf(id) == CHOOSE i \in 1..Len(mmOrder) : mmOrder[i].id = id

\* The provider calls of the call that were a store.
StoresLogged == {i \in 1..Len(mmLog) : mmLog[i].op = "store"}

\* The locations at which the call has left data.
StoredByCall == {l \in mmData : l.key = mmStores}

StepStarts == Len(txCalls') = Len(txCalls) + 1

\* The steps whose execute has completed successfully.
Completed == {txExecuted[i] : i \in 1..Len(txExecuted)}

\* C22: within one executeTransaction call at most one execute or rollback
\* is in progress: the execute of step j + 1 starts only after the execute
\* of step j has completed successfully, no execute starts after a failure,
\* the rollbacks start only after the failing execute has returned, and
\* each rollback starts only after the previous one has finished.
C22_OneStepAtATime ==
    [][StepStarts =>
          LET call == txCalls'[Len(txCalls')]
          IN  /\ txInflight = NoCall
              /\ txInflight' = call
              /\ call.op = "execute" =>
                    /\ txCaught = NoError
                    /\ Completed = 1..(call.step - 1)
                    /\ \A i \in 1..Len(txCalls) : txCalls[i].op = "execute"
              /\ call.op = "rollback" =>
                    /\ txCaught # NoError
                    /\ txCaught.by = "execute"
                    /\ call.step \in Completed
                    /\ \A i \in 1..Len(txCalls) :
                          txCalls[i].op = "rollback" => txCalls[i].step > call.step]_vars

\* The second rollback of a transaction is in progress.
C22_Witness ==
    /\ txInflight.op = "rollback"
    /\ Len(txCalls) >= 2
    /\ txCalls[Len(txCalls) - 1].op = "rollback"

\* The last ten of the samples before a tick followed by the tick's sample.
LastTen(before, sample) ==
    IF Len(before) >= 10 THEN SubSeq(before, Len(before) - 8, Len(before)) \o <<sample>>
    ELSE Append(before, sample)

\* C23: each registered bucket's size history and each provider's usage
\* history holds at most 10 samples, the most recent ones in tick order: a
\* tick appends its sample and drops the oldest one when it is the 11th.
C23_LastTenSamples ==
    /\ \A id \in MonBucketIds : Len(monBucketHistory[id]) <= 10
    /\ \A id \in MonProviderIds : Len(monProviderHistory[id]) <= 10
    /\ Ticked =>
          /\ \A i \in 1..Len(monBuckets) :
                monBucketHistory[monBuckets[i].id] =
                    LastTen(monOut.bucketHistoryBefore[monBuckets[i].id],
                            monBuckets[i].chunkCount * 5)
          /\ \A i \in 1..Len(monProviders) :
                monProviders[i].connected =>
                    monProviderHistory[monProviders[i].id] =
                        LastTen(monOut.providerHistoryBefore[monProviders[i].id],
                                [used |-> monProviders[i].used,
                                 total |-> monProviders[i].total])

\* An eleventh sample has been recorded in a history whose oldest sample
\* differed from the others.
C23_Witness ==
    /\ Ticked
    /\ Len(monOut.bucketHistoryBefore["b1"]) = 10
    /\ monOut.bucketHistoryBefore["b1"][1] # monOut.bucketHistoryBefore["b1"][2]
    /\ monBucketHistory["b1"][10] # monBucketHistory["b1"][9]
    /\ Len(monOut.providerHistoryBefore["p1"]) = 10
    /\ monOut.providerHistoryBefore["p1"][1] # monOut.providerHistoryBefore["p1"][2]

(***************************************************************************)
(* Claims about the bucket graph                                           *)
(***************************************************************************)
\* The Bucket objects in the child map of a Bucket object.
ChildrenOf(b) == {bkBuckets[b].subBuckets[i] : i \in 1..Len(bkBuckets[b].subBuckets)}

RECURSIVE Below(_, _)
\* The Bucket objects reachable from b through at most n child maps.
Below(b, n) ==
    IF n = 0 THEN {}
    ELSE ChildrenOf(b) \cup UNION {Below(c, n - 1) : c \in ChildrenOf(b)}

\* The forest: a contained bucket has the container's id as its parentId,
\* is in one child map, once, and does not reach itself.
Forest ==
    \A b \in 1..Len(bkBuckets) :
        /\ \A c \in ChildrenOf(b) :
              /\ bkBuckets[c].parentId = BucketId(b)
              /\ \A other \in 1..Len(bkBuckets) : c \in ChildrenOf(other) => other = b
              /\ Cardinality({i \in 1..Len(bkBuckets[b].subBuckets) :
                                 bkBuckets[b].subBuckets[i] = c}) = 1
        /\ b \notin Below(b, Len(bkBuckets))

\* C24: after any sequence of createBucket, addSubBucket and
\* removeSubBucket calls the bucket graph is a forest, and the parentId of
\* a bucket never changes.
C24_BucketForest ==
    /\ []Forest
    /\ [][\A b \in 1..Len(bkBuckets) :
             bkBuckets'[b].parentId = bkBuckets[b].parentId]_vars

\* A tree of three levels from which a sub-bucket has been removed, with a
\* sub-bucket that was given the id of the root.
C24_Witness ==
    /\ \E b \in 1..Len(bkBuckets) : \E c \in ChildrenOf(b) : ChildrenOf(c) # {}
    /\ \E b \in 1..Len(bkBuckets) :
          /\ bkBuckets[b].parentId # NoParent
          /\ \A p \in 1..Len(bkBuckets) : b \notin ChildrenOf(p)
    /\ \E b \in 2..Len(bkBuckets) : BucketId(b) = 1 /\ \E p \in 1..Len(bkBuckets) : b \in ChildrenOf(p)

(***************************************************************************)
(* Claims about VectorStore.search on empty stores and odd queries         *)
(***************************************************************************)
\* C25: search on an empty store returns an empty result for every query,
\* the empty vector included, without an error; on a non-empty store a
\* query whose length differs from the store's dimension fails.
C25_EmptyStoreOrError ==
    vsOut.op = "search" =>
        /\ vsOut.sizeBefore = 0 => (~vsOut.threw /\ vsOut.results = <<>>)
        /\ (vsOut.sizeBefore > 0 /\ Len(vsOut.embedding.dir) # Dim) => vsOut.threw

\* C25, for a store that holds only embeddings of its dimension.
EmptyStoreOrErrorWhenDimensionsAgree ==
    (\A i \in 1..Len(vsChunks) : Len(vsChunks[i].embedding.dir) = Dim)
        => C25_EmptyStoreOrError

\* The empty query has been answered by an empty store, and a short query
\* has been refused by a store of full-length embeddings.
EmptyStoreProbed ==
    /\ vsOut.op = "search"
    /\ \/ vsOut.sizeBefore = 0 /\ vsOut.embedding = Vec(<<>>)
       \/ /\ vsOut.sizeBefore > 0
          /\ Len(vsOut.embedding.dir) = Dim - 1
          /\ vsOut.threw

(***************************************************************************)
(* Claims about the recursive search as a scan of the subtree              *)
(***************************************************************************)
\* A scan of every chunk stored in the searched bucket and its descendants
\* fails on an embedding whose length is not the query's.
ScanThrows ==
    LET stored == AddedTo(bkOut.bucket, TRUE)
    IN  \E i \in 1..Len(stored) : DistanceThrows(bkOut.query, bkHeap[stored[i]].embedding)

\* The scores of the query of the last search against each of those chunks.
ScannedScores ==
    LET stored == AddedTo(bkOut.bucket, TRUE)
    IN  [i \in 1..Len(stored) |->
            CalculateDistance(BucketMetric, bkOut.query, bkHeap[stored[i]].embedding)]

\* The number of scanned scores that exceed, or reach, a score.
ScannedAbove(score) ==
    Cardinality({i \in 1..Len(ScannedScores) : ScoreGT(ScannedScores[i], score)})

ScannedFrom(score) ==
    Cardinality({i \in 1..Len(ScannedScores) : ~ScoreGT(score, ScannedScores[i])})

\* C26: the scores a recursive Bucket.search returns are the k highest
\* scores among all chunks of the bucket and its descendants (all of them
\* if there are fewer than k): as many as min(k, chunks), in non-increasing
\* order, the i-th of them exceeded by fewer than i of the scanned scores
\* and reached by at least i.  The search fails exactly when the scan does.
C26_RecursiveSearchIsGlobalTopK ==
    (bkOut.op = "search" /\ bkOut.recursive) =>
        IF ScanThrows THEN bkOut.threw
        ELSE /\ ~bkOut.threw
             /\ Len(bkOut.results) = Min(bkOut.k, Len(ScannedScores))
             /\ \A i \in 1..Len(bkOut.results) :
                   /\ ScannedAbove(bkOut.results[i].score) < i
                   /\ ScannedFrom(bkOut.results[i].score) >= i

\* A recursive search has returned fewer results than the subtree holds
\* chunks, the best of them from a sub-bucket.
C26_Witness ==
    /\ bkOut.op = "search"
    /\ bkOut.recursive
    /\ ~bkOut.threw
    /\ bkOut.k > 0
    /\ Len(ScannedScores) > bkOut.k
    /\ Len(bkBuckets[bkOut.bucket].chunks) > 0
    /\ \A i \in 1..Len(bkBuckets[bkOut.bucket].chunks) :
          bkOut.results[1].chunk.id # bkBuckets[bkOut.bucket].chunks[i]

(***************************************************************************)
(* Claims about storeContent                                               *)
(***************************************************************************)
\* The chunks in the index of some root bucket.
IndexedChunks ==
    UNION {{bkBuckets[bkRoots[i]].chunks[j] : j \in 1..Len(bkBuckets[bkRoots[i]].chunks)} :
              i \in 1..Len(bkRoots)}

\* C27: once the storeContent calls made so far have settled, every chunk
\* in the index of a root bucket has a location in chunkLocations, and the
\* chunk of a call that failed is in no bucket's index.
C27_IndexedChunksAreStored ==
    icCall.status # "running" =>
        /\ \A c \in IndexedChunks : mmLocations[c] # NoLocation
        /\ icCall.status = "threw" => icCall.chunk \notin IndexedChunks

\* C28: storeChunk receives the tier the caller of storeContent gave, for
\* every StorageTier, and LOCAL when the caller gave none.
C28_PreferredTierForwarded ==
    icCall.status = "running" =>
        mmCall.preferredTier = IF icCall.options.given THEN icCall.options.preferredTier
                               ELSE TierLOCAL

\* What holds of line 167: every tier but MEMORY is forwarded, LOCAL is
\* passed when none is given or when MEMORY is given.
PreferredTierForwardedUnlessMemory ==
    icCall.status = "running" =>
        mmCall.preferredTier =
            IF icCall.options.given /\ icCall.options.preferredTier # TierMEMORY
            THEN icCall.options.preferredTier ELSE TierLOCAL

\* A call that gave MEMORY was stored by a LOCAL provider although a MEMORY
\* provider that accepts is registered.
MemoryPreferenceStoredLocally ==
    /\ icCall.status = "returned"
    /\ icCall.options = [given |-> TRUE, preferredTier |-> TierMEMORY]
    /\ mmProviders[mmLocations[icCall.chunk].providerId].tier = TierLOCAL
    /\ \E i \in 1..Len(mmProviders) :
          mmProviders[i].tier = TierMEMORY /\ mmProviders[i].condition = Accepting

(***************************************************************************)
(* Claims about startMonitoring / stopMonitoring                           *)
(***************************************************************************)
\* While the monitor is stopped no check has started since stopMonitoring
\* returned.
NoCheckStartsWhileStopped == ~mtMonitoring => monTicks = mtOut.started

\* At most one interval is set and not cleared.
AtMostOneTimer == Cardinality(mtTimers) <= 1

\* C29: between the return of stopMonitoring and the next startMonitoring
\* no check starts and no alert is generated (appended to the list and
\* handed to the callback), whatever check was suspended at the stop; and
\* at most one interval is active.
C29_StoppedMonitorIsSilent ==
    /\ ~mtMonitoring => monGenerated = mtOut.generated
    /\ NoCheckStartsWhileStopped
    /\ AtMostOneTimer

\* What holds of lines 207-237: a stopped monitor starts no check, and the
\* test of isMonitoring keeps one interval at most.
StoppedMonitorStartsNoCheck == NoCheckStartsWhileStopped /\ AtMostOneTimer

\* A check that was suspended when stopMonitoring returned has generated
\* an alert since.
AlertAfterStop ==
    /\ ~mtMonitoring
    /\ mtOut.started > 0
    /\ monGenerated > mtOut.generated

(***************************************************************************)
(* Claims about LocalStorageProvider                                       *)
(***************************************************************************)
\* C30: whatever the interleaving of the store calls, the data bytes the
\* provider has accepted never exceed maxSizeBytes.
C30_AcceptedWithinLimit == lpAccepted <= MaxSizeBytes

\* What holds of line 191: a store that finds currentSizeBytes + length
\* above the limit is never suspended, so it writes nothing.
SuspendedStoresPassedTheCheck ==
    \A k \in 1..Len(lpCalls) :
        lpCalls[k].op = "store" => lpCalls[k].length <= MaxSizeBytes

\* Two stores that each fit have both been stored, and their sum does not fit.
TwoStoresBeyondLimit ==
    /\ lpCalls = <<>>
    /\ lpOut.status = "stored"
    /\ lpAccepted > MaxSizeBytes

=============================================================================
